---- MODULE Spec2Model ----
(***************************************************************************)
(* A model of the trace-ingestion engine and the extension sandbox of      *)
(* sagentic.                                                               *)
(*                                                                         *)
(* The database is the record db of its tables; a row is a record with the *)
(* columns the modelled code reads or writes.  An Optional[...] value is   *)
(* the empty tuple (None) or a one-element tuple <<v>>.  uuid4() strings   *)
(* are natural numbers (rows) or "u<n>" strings (generated run ids); a new *)
(* uuid is the smallest value no stored row uses or references.  Costs     *)
(* (floats in the code) are integers in thousandths.                       *)
(***************************************************************************)
EXTENDS Integers, Sequences, FiniteSets, TLC

VARIABLES db, last, ingested, resp,
          extensions, client, audit, sent, call,
          workers,
          matched,
          fs, manager, routes, op, extension_data,
          storage, got,
          updates,
          installs,
          mcp, stdio,
          posted,
          sent_node,
          sets

ingestVars == <<db, last, ingested, resp>>
sandboxVars == <<extensions, client, audit, sent, call>>
matcherVars == <<matched>>
lifecycleVars == <<fs, manager, routes, op, extension_data>>
storageVars == <<storage, got>>
vars == <<db, last, ingested, resp, extensions, client, audit, sent, call, workers,
          matched, fs, manager, routes, op, extension_data, storage, got, updates,
          installs, mcp, stdio, posted, sent_node,
    sets>>

\* what the actions of one part of the program leave alone
exceptIngest == <<sandboxVars, workers, matcherVars, lifecycleVars, storageVars,
                  updates, installs, mcp, stdio, posted, sent_node,
    sets>>
exceptExtensions == <<ingestVars, workers, matcherVars, storageVars, updates, installs,
                      mcp, stdio, posted, sent_node,
    sets>>
exceptConc == <<last, ingested, resp, sandboxVars, matcherVars, lifecycleVars,
                storageVars, updates, installs, mcp, stdio, posted, sent_node,
    sets>>
exceptMatcher == <<ingestVars, sandboxVars, workers, lifecycleVars, storageVars,
                   updates, installs, mcp, stdio, posted, sent_node,
    sets>>
exceptStorage == <<ingestVars, sandboxVars, workers, matcherVars, fs, manager, routes,
                   op, updates, installs, mcp, stdio, posted, sent_node,
    sets>>
exceptUpdates == <<ingestVars, client, audit, sent, call, workers, matcherVars, fs, op,
                   extension_data, storageVars, installs, mcp, stdio, posted, sent_node,
    sets>>

(***************************************************************************)
(* Bounds                                                                  *)
(***************************************************************************)
\* the database holds at most MaxStored rows of runs, node_executions,
\* messages and edges together
MaxStored == 4
\* at most MaxEvals evaluations are created
MaxEvals == 1
\* at most MaxCalls requests are made through the sandbox client
MaxCalls == 2
MaxRoutes == 3

None == <<>>
Some(v) == <<v>>
\* Python truthiness of an Optional[int]: None and 0 are falsy
Truthy(x) == x # <<>> /\ x[1] # 0

RECURSIVE SumSeq(_)
SumSeq(s) == IF s = <<>> THEN 0 ELSE s[1] + SumSeq(Tail(s))

Range(s) == {s[i] : i \in 1..Len(s)}

(***************************************************************************)
(* Trace payloads (core/schemas.py)                                        *)
(***************************************************************************)
\* MessageCreate: the numeric fields the ingest reads
MsgSet ==
    { [total_tokens |-> None, cost |-> None, latency_ms |-> None],
      [total_tokens |-> Some(3), cost |-> Some(1), latency_ms |-> Some(50)] }

\* NodeExecutionCreate.order: absent, or an explicit value
OrderVals == {None, Some(0)}

\* EdgeCreate
EdgeSet == { [from_node |-> "n1", to_node |-> "n2"] }

\* TraceIngest.run_id: None or a client-chosen id
ClientRunIds == {"r1"}

NodeKey(i) == "n" \o ToString(i)

RECURSIVE MsgSeqs(_)
MsgSeqs(k) ==
    IF k = 0 THEN {<<>>}
    ELSE {<<m>> \o rest : m \in MsgSet, rest \in MsgSeqs(k - 1)}

\* nodes (without their key) that contribute s rows: the node and s-1 messages
NodesOfSize(s) ==
    {[order |-> o, messages |-> ms] : o \in OrderVals, ms \in MsgSeqs(s - 1)}

RECURSIVE NodeSeqsOfSize(_)
NodeSeqsOfSize(s) ==
    IF s = 0 THEN {<<>>}
    ELSE UNION { {<<n>> \o rest : n \in NodesOfSize(k), rest \in NodeSeqsOfSize(s - k)}
                 : k \in 1..s }

RECURSIVE EdgeSeqs(_)
EdgeSeqs(k) ==
    IF k = 0 THEN {<<>>}
    ELSE {<<e>> \o rest : e \in EdgeSet, rest \in EdgeSeqs(k - 1)}

\* node_key is required; the i-th node of a payload is given the key n<i>
WithKeys(ns) ==
    [i \in 1..Len(ns) |->
        [node_key |-> NodeKey(i), order |-> ns[i].order, messages |-> ns[i].messages]]

\* the (nodes, edges) bodies of the payloads with at most b child rows
Bodies(b) ==
    UNION { {[nodes |-> WithKeys(ns), edges |-> es] :
                ns \in NodeSeqsOfSize(s), es \in EdgeSeqs(e)}
            : <<s, e>> \in {p \in (0..b) \X (0..b) : p[1] + p[2] <= b} }

\* the payloads: every body under a client-chosen run_id
Traces ==
    {[run_id |-> Some(c), nodes |-> bd.nodes, edges |-> bd.edges] :
        c \in ClientRunIds, bd \in Bodies(MaxStored - 1)}

TraceRows(t) ==
    1 + Len(t.nodes) + SumSeq([i \in 1..Len(t.nodes) |-> Len(t.nodes[i].messages)])
      + Len(t.edges)

(***************************************************************************)
(* The database (db/models.py)                                             *)
(***************************************************************************)
EmptyDb ==
    [runs |-> {}, node_executions |-> {}, messages |-> {}, edges |-> {},
     evaluations |-> {}]

StoredRows(d) ==
    Cardinality(d.runs) + Cardinality(d.node_executions)
      + Cardinality(d.messages) + Cardinality(d.edges)

RunExists(d, rid) == \E r \in d.runs : r.id = rid

\* db.query(Run).filter(Run.id == run_id).first(), for a stored run
RunRowOf(d, rid) == CHOOSE r \in d.runs : r.id = rid

\* uuid4(): the values already used as, or referenced as, a row id
UsedIds(d) ==
    {n.id : n \in d.node_executions} \cup {m.id : m \in d.messages}
      \cup {e.id : e \in d.edges} \cup {v.id : v \in d.evaluations}
      \cup {m.node_execution_id : m \in d.messages}
      \cup UNION {Range(v.node_execution_id) : v \in d.evaluations}

RECURSIVE FreshFrom(_, _, _)
FreshFrom(used, k, n) ==
    IF n = 0 THEN <<>>
    ELSE IF k \in used THEN FreshFrom(used, k + 1, n)
    ELSE <<k>> \o FreshFrom(used, k + 1, n - 1)

\* n new row ids
FreshIds(d, n) == FreshFrom(UsedIds(d), 1, n)

UsedRunIds(d) ==
    {r.id : r \in d.runs} \cup {n.run_id : n \in d.node_executions}
      \cup {e.run_id : e \in d.edges} \cup {v.run_id : v \in d.evaluations}

RECURSIVE FreshRunIdFrom(_, _)
FreshRunIdFrom(used, k) ==
    IF ("u" \o ToString(k)) \in used THEN FreshRunIdFrom(used, k + 1)
    ELSE "u" \o ToString(k)

\* str(uuid.uuid4()) for a run
FreshRunId(d) == FreshRunIdFrom(UsedRunIds(d), 1)

(***************************************************************************)
(* Deleting a run and its children                                         *)
(***************************************************************************)
\* db.query(Edge).filter(Edge.run_id == run_id).delete()
DeleteEdges(d, rid) == [d EXCEPT !.edges = {e \in @ : e.run_id # rid}]

\* db.query(NodeExecution.id).filter(NodeExecution.run_id == run_id).all()
NodeIdsOf(d, rid) == {n.id : n \in {x \in d.node_executions : x.run_id = rid}}

\* for (node_id,) in node_ids: db.query(Message).filter(...).delete()
DeleteMessagesOf(d, nids) ==
    [d EXCEPT !.messages = {m \in @ : m.node_execution_id \notin nids}]

\* db.query(NodeExecution).filter(NodeExecution.run_id == run_id).delete()
DeleteNodeExecutions(d, rid) ==
    [d EXCEPT !.node_executions = {n \in @ : n.run_id # rid}]

\* the DELETE of node_executions violates the foreign key
\* node_execution_id of evaluations or of messages when a row of either still
\* references one of the nodes
NodeDeleteViolatesFk(d, rid) ==
    \/ \E v \in d.evaluations :
        v.node_execution_id # None /\ v.node_execution_id[1] \in NodeIdsOf(d, rid)
    \/ \E m \in d.messages : m.node_execution_id \in NodeIdsOf(d, rid)

\* db.delete(run) and the flush: the relationships node_executions, edges and
\* evaluations of Run declare no delete cascade, so the session sets the
\* run_id of every child row it still finds to NULL before it deletes the run
\* row; run_id is nullable=False in each of them, so the flush raises
\* IntegrityError when a child row is left
RunDeleteRaises(d, rid) ==
    \/ \E n \in d.node_executions : n.run_id = rid
    \/ \E e \in d.edges : e.run_id = rid
    \/ \E v \in d.evaluations : v.run_id = rid

DeleteRunRow(d, rid) == [d EXCEPT !.runs = {r \in @ : r.id # rid}]

\* the statements that delete a stored run: [ok, db]; ok = FALSE when a
\* statement raised (the caller's transaction is then rolled back)
DeleteRunStatements(d, rid) ==
    LET d1 == DeleteEdges(d, rid)
        d2 == DeleteMessagesOf(d1, NodeIdsOf(d1, rid))
        d3 == DeleteNodeExecutions(d2, rid)
    IN  IF NodeDeleteViolatesFk(d2, rid) \/ RunDeleteRaises(d3, rid)
        THEN [ok |-> FALSE, db |-> d]
        ELSE [ok |-> TRUE, db |-> DeleteRunRow(d3, rid)]

\* RunRepository.delete_run_cascade: the bulk deletes, then the run row and a
\* commit when the run is found; nothing is committed when it is not
delete_run_cascade(d, rid) ==
    IF RunExists(d, rid) THEN DeleteRunStatements(d, rid)
    ELSE [ok |-> TRUE, db |-> d]

(***************************************************************************)
(* Building the rows of a trace                                            *)
(***************************************************************************)
\* node_order = node_data.order if node_data.order is not None else idx
NodeOrder(node, idx) == IF node.order # None THEN node.order[1] ELSE idx

\* a mutant of NodeLatency: only the last message's latency is kept
NodeLatency_LastOnly(node) ==
    IF node.messages # <<>> /\ Truthy(node.messages[Len(node.messages)].latency_ms)
    THEN node.messages[Len(node.messages)].latency_ms[1] ELSE 0

\* if msg_data.latency_ms: node_latency += msg_data.latency_ms
NodeLatency(node) ==
    SumSeq([j \in 1..Len(node.messages) |->
        IF Truthy(node.messages[j].latency_ms) THEN node.messages[j].latency_ms[1] ELSE 0])

\* if msg_data.total_tokens: total_tokens += msg_data.total_tokens
NodeTokens(node) ==
    SumSeq([j \in 1..Len(node.messages) |->
        IF Truthy(node.messages[j].total_tokens) THEN node.messages[j].total_tokens[1] ELSE 0])

\* if msg_data.cost: total_cost += msg_data.cost
NodeCost(node) ==
    SumSeq([j \in 1..Len(node.messages) |->
        IF Truthy(node.messages[j].cost) THEN node.messages[j].cost[1] ELSE 0])

\* the Run row with its aggregates patched in
RunRow(t, rid) ==
    [id |-> rid,
     total_tokens |-> SumSeq([i \in 1..Len(t.nodes) |-> NodeTokens(t.nodes[i])]),
     total_cost |-> SumSeq([i \in 1..Len(t.nodes) |-> NodeCost(t.nodes[i])]),
     total_latency_ms |-> SumSeq([i \in 1..Len(t.nodes) |-> NodeLatency(t.nodes[i])])]

MsgCount(t) == SumSeq([i \in 1..Len(t.nodes) |-> Len(t.nodes[i].messages)])

\* position of the first message id of node i among the new ids
MsgBase(t, i) ==
    Len(t.nodes) + SumSeq([k \in 1..(i - 1) |-> Len(t.nodes[k].messages)])

\* a mutant of NodeRows: the first node of the payload is skipped
NodeRows_SkipFirst(t, rid, ids) ==
    {[id |-> ids[i], run_id |-> rid, node_key |-> t.nodes[i].node_key,
      order |-> IF t.nodes[i].order # None THEN t.nodes[i].order[1] ELSE i - 1,
      latency_ms |-> 0] : i \in 2..Len(t.nodes)}

\* for idx, node_data in enumerate(trace.nodes): NodeExecution(...)
NodeRows(t, rid, ids) ==
    {[id |-> ids[i], run_id |-> rid, node_key |-> t.nodes[i].node_key,
      order |-> NodeOrder(t.nodes[i], i - 1),
      latency_ms |-> NodeLatency(t.nodes[i])] : i \in 1..Len(t.nodes)}

\* for msg_order, msg_data in enumerate(node_data.messages): Message(...)
MessageRows(t, ids) ==
    UNION { {[id |-> ids[MsgBase(t, i) + j], node_execution_id |-> ids[i],
              order |-> j - 1,
              total_tokens |-> t.nodes[i].messages[j].total_tokens,
              cost |-> t.nodes[i].messages[j].cost,
              latency_ms |-> t.nodes[i].messages[j].latency_ms]
             : j \in 1..Len(t.nodes[i].messages)}
            : i \in 1..Len(t.nodes) }

\* for edge_order, edge_data in enumerate(trace.edges): Edge(...)
EdgeRows(t, rid, ids) ==
    {[id |-> ids[Len(t.nodes) + MsgCount(t) + k], run_id |-> rid,
      from_node |-> t.edges[k].from_node, to_node |-> t.edges[k].to_node,
      order |-> k - 1] : k \in 1..Len(t.edges)}

\* the rows the ingest adds to the session and commits
InsertTrace(d, t, rid) ==
    LET ids == FreshIds(d, Len(t.nodes) + MsgCount(t) + Len(t.edges))
    IN  [d EXCEPT !.runs = @ \cup {RunRow(t, rid)},
                  !.node_executions = @ \cup NodeRows(t, rid, ids),
                  !.messages = @ \cup MessageRows(t, ids),
                  !.edges = @ \cup EdgeRows(t, rid, ids)]

\* run_id = trace.run_id or str(uuid.uuid4())
TraceRunId(d, t) == IF t.run_id # None THEN t.run_id[1] ELSE FreshRunId(d)

Forget(f, x) == [y \in DOMAIN f \ {x} |-> f[y]]

(***************************************************************************)
(* POST /api/traces (api/server.py): one transaction                       *)
(***************************************************************************)
\* a mutant of HttpIngest: a stored run is kept and the payload's children are
\* added to it (a merge)
HttpIngest_Merge(t, fail) ==
    \E rid \in {TraceRunId(db, t)} :
    \E existing \in {RunExists(db, rid)} :
        /\ StoredRows(db) + TraceRows(t) <= MaxStored + 1
        /\ \E ok \in {~fail} :
            /\ db' = IF ok THEN InsertTrace(db, t, rid) ELSE db
            /\ ingested' = IF ok THEN (rid :> [trace |-> t, op |-> "http_ingest"]) @@ ingested ELSE ingested
            /\ last' = [op |-> "http_ingest", run_id |-> rid, existed |-> existing,
                        nodes_before |-> Cardinality(db.node_executions),
                        result |-> IF ok THEN "ingested" ELSE "error"]
            /\ resp' = None

\* fail: a storage error is raised at some row before the commit
HttpIngest(t, fail) ==
    \E rid \in {TraceRunId(db, t)} :
    \E existing \in {RunExists(db, rid)} :
    \E del \in {IF existing THEN DeleteRunStatements(db, rid)
                            ELSE [ok |-> TRUE, db |-> db]} :
        /\ StoredRows(del.db) + TraceRows(t) <= MaxStored
        /\ \E ok \in {del.ok /\ ~fail} :
            /\ db' = IF ok THEN InsertTrace(del.db, t, rid) ELSE db
            /\ ingested' = IF ok THEN (rid :> [trace |-> t, op |-> "http_ingest"]) @@ ingested ELSE ingested
            /\ last' = [op |-> "http_ingest", run_id |-> rid, existed |-> existing,
                        nodes_before |-> Cardinality(db.node_executions),
                        result |-> IF ok THEN "ingested" ELSE "error"]
            /\ resp' = None

(***************************************************************************)
(* The request body of POST /api/traces and its validation                 *)
(* (core/schemas.py, TraceIngest)                                          *)
(*                                                                         *)
(* The nodes member of a posted body is a JSON array of node objects, a    *)
(* JSON value of another type, or missing.  posted is the last body        *)
(* posted.                                                                 *)
(***************************************************************************)
\* the payloads posted here and sent through MCP have at most MaxArgRows
\* child rows
MaxArgRows == 2

SmallTraces ==
    {[run_id |-> Some(c), nodes |-> bd.nodes, edges |-> bd.edges] :
        c \in ClientRunIds, bd \in Bodies(MaxArgRows)}

JsonArray(items) == [type |-> "array", items |-> items]
JsonString == [type |-> "string", items |-> <<>>]
JsonMissing == [type |-> "missing", items |-> <<>>]

PostedBody(run_id, nodes, edges) == [run_id |-> run_id, nodes |-> nodes, edges |-> edges]

NoBody == PostedBody(None, JsonMissing, <<>>)

\* the bodies posted: every payload, and bodies without nodes or with nodes
\* that are not a list
PostedBodies ==
    {PostedBody(t.run_id, JsonArray(t.nodes), t.edges) : t \in SmallTraces}
      \cup {PostedBody(Some(c), n, <<>>) : c \in ClientRunIds, n \in {JsonMissing, JsonString}}

\* a mutant of TraceIngest: nodes defaults to the empty list
TraceIngest_NodesDefault(body) ==
    Some([run_id |-> body.run_id,
          nodes |-> IF body.nodes.type = "array" THEN body.nodes.items ELSE <<>>,
          edges |-> body.edges])

\* TraceIngest(**body): nodes: List[NodeExecutionCreate] is required and must
\* be a list; None stands for the ValidationError
TraceIngest(body) ==
    IF body.nodes.type = "array"
    THEN Some([run_id |-> body.run_id, nodes |-> body.nodes.items, edges |-> body.edges])
    ELSE None

\* POST /api/traces: the framework builds the TraceIngest argument from the
\* body and answers 422 without calling ingest_trace when that fails
post_traces(body, fail) ==
    /\ posted' = body
    /\ \E trace \in {TraceIngest(body)} :
         IF trace = None
         THEN /\ resp' = Some([status |-> 422])
              /\ last' = [op |-> "post_traces", run_id |-> "", existed |-> FALSE,
                          nodes_before |-> Cardinality(db.node_executions),
                          result |-> "rejected"]
              /\ UNCHANGED <<db, ingested>>
         ELSE HttpIngest(trace[1], fail)

(***************************************************************************)
(* The MCP tool ingest_trace (mcp/server.py)                               *)
(***************************************************************************)
\* order=order from enumerate(nodes): an explicit order of the payload is not
\* read
WithoutOrders(t) ==
    [t EXCEPT !.nodes = [i \in 1..Len(t.nodes) |-> [t.nodes[i] EXCEPT !.order = None]]]

\* ingest_trace(args). A stored run of the same id is not deleted first: the
\* INSERT of the run row fails on the primary key, the session is rolled back
\* and an error dict is returned
McpIngest(t, fail) ==
    \E rid \in {TraceRunId(db, t)} :
    \E existing \in {RunExists(db, rid)} :
        /\ existing \/ StoredRows(db) + TraceRows(t) <= MaxStored
        /\ \E ok \in {~existing /\ ~fail} :
            /\ db' = IF ok THEN InsertTrace(db, WithoutOrders(t), rid) ELSE db
            /\ ingested' = IF ok THEN (rid :> [trace |-> t, op |-> "mcp_ingest"]) @@ ingested ELSE ingested
            /\ last' = [op |-> "mcp_ingest", run_id |-> rid, existed |-> existing,
                        nodes_before |-> Cardinality(db.node_executions),
                        result |-> IF ok THEN "ingested" ELSE "error"]
            /\ resp' = None

(***************************************************************************)
(* RunService (services/run_service.py)                                    *)
(***************************************************************************)
\* NodeExecutionCreate declares no status field, and a pydantic model drops
\* the fields it does not declare: reading node_data.status raises
\* AttributeError
SchemaHasNodeStatus == FALSE

FailPoints == {"none", "delete", "insert"}

\* RunService.ingest_trace. failAt: a storage error is raised in the delete
\* step or at some inserted row
ServiceIngest(t, failAt) ==
    \E rid \in {TraceRunId(db, t)} :
    \E existing \in {RunExists(db, rid)} :
    \E del \in {IF existing /\ failAt # "delete" THEN delete_run_cascade(db, rid)
                ELSE [ok |-> ~existing, db |-> db]} :
        /\ failAt = "delete" => existing
        /\ StoredRows(del.db) + TraceRows(t) <= MaxStored
        /\ \E ok \in {/\ del.ok
                      /\ failAt # "insert"
                      /\ Len(t.nodes) > 0 => SchemaHasNodeStatus} :
            /\ db' = IF ok THEN InsertTrace(del.db, t, rid) ELSE del.db
            /\ ingested' = IF ok THEN (rid :> [trace |-> t, op |-> "service_ingest"]) @@ ingested
                           ELSE IF del.ok /\ existing THEN Forget(ingested, rid)
                           ELSE ingested
            /\ last' = [op |-> "service_ingest", run_id |-> rid, existed |-> existing,
                        nodes_before |-> Cardinality(db.node_executions),
                        result |-> IF ok THEN "ingested" ELSE "error"]
            /\ resp' = None

\* RunService.delete_run
ServiceDeleteRun(rid) ==
    \E existing \in {RunExists(db, rid)} :
    \E del \in {delete_run_cascade(db, rid)} :
        /\ db' = del.db
        /\ ingested' = IF del.ok /\ existing THEN Forget(ingested, rid) ELSE ingested
        /\ last' = [op |-> "delete_run", run_id |-> rid, existed |-> existing,
                    nodes_before |-> Cardinality(db.node_executions),
                    result |-> IF del.ok THEN "deleted" ELSE "error"]
        /\ resp' = None

(***************************************************************************)
(* POST /api/evaluations (api/server.py)                                   *)
(***************************************************************************)
create_evaluation(rid, nid) ==
    LET found == /\ RunExists(db, rid)
                 /\ nid # None => \E n \in db.node_executions : n.id = nid[1]
    IN  /\ Cardinality(db.evaluations) < MaxEvals
        /\ db' = IF found
                 THEN [db EXCEPT !.evaluations = @ \cup
                        {[id |-> FreshIds(db, 1)[1], run_id |-> rid,
                          node_execution_id |-> nid]}]
                 ELSE db
        /\ last' = [op |-> "create_evaluation", run_id |-> rid,
                    existed |-> RunExists(db, rid),
                    nodes_before |-> Cardinality(db.node_executions),
                    result |-> IF found THEN "created" ELSE "not_found"]
        /\ UNCHANGED ingested
        /\ resp' = None

(***************************************************************************)
(* GET /api/runs/{run_id} (api/server.py)                                  *)
(***************************************************************************)
\* the rows of S by ascending order column (order_by(...order)); rows of
\* equal order come in the order the database chooses, here by ascending
\* (asc) or by descending row id
SortKeyLess(a, b, asc) ==
    \/ a.order < b.order
    \/ a.order = b.order /\ (IF asc THEN a.id < b.id ELSE a.id > b.id)

RECURSIVE OrderedBy(_, _)
OrderedBy(S, asc) ==
    IF S = {} THEN <<>>
    ELSE LET first == CHOOSE x \in S : \A y \in S \ {x} : SortKeyLess(x, y, asc)
         IN  <<first>> \o OrderedBy(S \ {first}, asc)

MessageResponses(d, nid, asc) ==
    LET ms == OrderedBy({m \in d.messages : m.node_execution_id = nid}, asc)
    IN  [j \in 1..Len(ms) |->
            [order |-> ms[j].order, total_tokens |-> ms[j].total_tokens,
             cost |-> ms[j].cost, latency_ms |-> ms[j].latency_ms]]

NodeResponses(d, rid, asc) ==
    LET ns == OrderedBy({n \in d.node_executions : n.run_id = rid}, asc)
    IN  [i \in 1..Len(ns) |->
            [node_key |-> ns[i].node_key, order |-> ns[i].order,
             latency_ms |-> ns[i].latency_ms,
             messages |-> MessageResponses(d, ns[i].id, asc)]]

EdgeResponses(d, rid, asc) ==
    LET es == OrderedBy({e \in d.edges : e.run_id = rid}, asc)
    IN  [k \in 1..Len(es) |->
            [from_node |-> es[k].from_node, to_node |-> es[k].to_node,
             order |-> es[k].order]]

get_run(rid, asc) ==
    /\ resp' = IF ~RunExists(db, rid) THEN Some([status |-> 404])
               ELSE Some([status |-> 200, id |-> rid,
                          total_tokens |-> RunRowOf(db, rid).total_tokens,
                          total_cost |-> RunRowOf(db, rid).total_cost,
                          total_latency_ms |-> RunRowOf(db, rid).total_latency_ms,
                          nodes |-> NodeResponses(db, rid, asc),
                          edges |-> EdgeResponses(db, rid, asc)])
    /\ last' = [op |-> "get_run", run_id |-> rid, existed |-> RunExists(db, rid),
                nodes_before |-> Cardinality(db.node_executions),
                result |-> IF RunExists(db, rid) THEN "ok" ELSE "not_found"]
    /\ UNCHANGED <<db, ingested>>

(***************************************************************************)
(* The status and the state_diff of an ingested node (api/server.py,       *)
(* services/run_service.py, mcp/server.py)                                 *)
(*                                                                         *)
(* A state is a dict from top-level keys to values, here a function.       *)
(* sent_node holds one node of a payload as the client sent it, the ingest *)
(* it went through, and the status and state_diff columns of the row       *)
(* stored.                                                                 *)
(***************************************************************************)
StateKeys == {"a", "b"}
StateVals == {1, 2}

Dicts == UNION {[S -> StateVals] : S \in SUBSET StateKeys}

\* the nodes sent: error, status, state_in and state_out, each absent or given
NodeBodies ==
    {[error |-> e, status |-> st, state_in |-> si, state_out |-> so] :
        e \in {None, Some("boom")},
        st \in {None, Some("running"), Some("failed")},
        si \in {None} \cup {Some(d) : d \in Dicts},
        so \in {None} \cup {Some(d) : d \in Dicts}}

\* NodeExecutionCreate(**body): the model declares no status field, and a
\* field that is not declared is dropped
NodeExecutionCreate(body) ==
    [error |-> body.error, state_in |-> body.state_in, state_out |-> body.state_out]

\* Python truthiness of an Optional[str] and of an Optional[dict]
StrTruthy(x) == x # None /\ x[1] # ""
DictTruthy(x) == x # None /\ DOMAIN x[1] # {}

\* compute_state_diff(state_in, state_out)
compute_state_diff(state_in, state_out) ==
    [added |-> [k \in DOMAIN state_out \ DOMAIN state_in |-> state_out[k]],
     removed |-> [k \in DOMAIN state_in \ DOMAIN state_out |-> state_in[k]],
     modified |-> [k \in {x \in DOMAIN state_in \cap DOMAIN state_out :
                             state_in[x] # state_out[x]}
                    |-> [before |-> state_in[k], after |-> state_out[k]]]]

\* state_diff = None; if node_data.state_in and node_data.state_out: ...
StateDiffOf(node_data) ==
    IF DictTruthy(node_data.state_in) /\ DictTruthy(node_data.state_out)
    THEN Some(compute_state_diff(node_data.state_in[1], node_data.state_out[1]))
    ELSE None

\* status="completed" if not node_data.error else "failed"
StatusOf(node_data) == IF StrTruthy(node_data.error) THEN "failed" ELSE "completed"

IngestPaths == {"http", "mcp", "service"}

NoNode ==
    [body |-> [error |-> None, status |-> None, state_in |-> None, state_out |-> None],
     path |-> "none", stored |-> None]

\* the node row an ingest stores for the node. POST /api/traces and
\* RunService.ingest_trace read the parsed NodeExecutionCreate, the MCP tool
\* the dict as sent; RunService reads node_data.status, which raises
\* AttributeError when the model has no such field: nothing is stored
StoreNode(path) ==
    /\ sent_node.path = "none"
    /\ sent_node.body \in NodeBodies
    /\ \E node_data \in {IF path = "mcp" THEN sent_node.body
                          ELSE NodeExecutionCreate(sent_node.body)} :
         sent_node' = [sent_node EXCEPT
                    !.path = path,
                    !.stored = IF path = "service" /\ ~SchemaHasNodeStatus THEN None
                               ELSE Some([status |-> StatusOf(node_data),
                                          state_diff |-> StateDiffOf(node_data)])]

(***************************************************************************)
(* The MCP tool surface (mcp/server.py, api/routers/mcp_server.py)         *)
(*                                                                         *)
(* A request is the record of the fields the handlers read: id, method,    *)
(* and the name and arguments of params.  A reply is what the caller gets: *)
(* kind "result" or "error" for a JSON-RPC object with that member, "bare" *)
(* for an object with neither, "empty" for an HTTP 200 without a body,     *)
(* "500" for an unhandled exception of the endpoint; text is the value the *)
(* tool returned, which the handler serializes into result.content.        *)
(* mcp is the last exchange.                                               *)
(***************************************************************************)
NoArguments ==
    [run_id |-> None, nodes |-> <<>>, edges |-> <<>>, graph_id |-> None,
     input_state |-> None, node_name |-> None, output |-> None]

\* the arguments of an ingest_trace call: a trace payload
TraceArguments(t) ==
    [NoArguments EXCEPT !.run_id = t.run_id, !.nodes = t.nodes, !.edges = t.edges]

TraceOf(args) == [run_id |-> args.run_id, nodes |-> args.nodes, edges |-> args.edges]

McpRequest(id, method, name, arguments) ==
    [id |-> id, method |-> method, name |-> name, arguments |-> arguments]

ToolCall(name, arguments) == McpRequest(Some(1), "tools/call", name, arguments)

\* the payloads sent through MCP: the tool's schema has no order for a node
McpTraces == {t \in SmallTraces : \A i \in 1..Len(t.nodes) : t.nodes[i].order = None}

RunIdArguments == {[NoArguments EXCEPT !.run_id = r] : r \in {None, Some("r1"), Some("r2")}}

\* the requests of the stdio transport
McpRequests ==
    {McpRequest(Some(1), m, "", NoArguments) : m \in {"initialize", "tools/list", "resources/list"}}
      \cup {McpRequest(None, "notifications/initialized", "", NoArguments)}
      \cup {ToolCall("ingest_trace", TraceArguments(t)) : t \in McpTraces}
      \cup {ToolCall("get_run", a) : a \in RunIdArguments}
      \cup {ToolCall("list_runs", NoArguments), ToolCall("no_such_tool", NoArguments)}

\* the value a tool returns: a dict with an error key, or its data
NoText == [error |-> None, status |-> "", run_id |-> "", nodes |-> <<>>, count |-> 0]
ErrorText(message) == [NoText EXCEPT !.error = Some(message)]

Reply(kind, code, text) == [kind |-> kind, code |-> code, text |-> text]
Result(text) == Reply("result", 0, text)
Error(code) == Reply("error", code, NoText)

\* fail: a storage error was raised while the request was handled
Exchange(transport, request, fail, reply) ==
    [transport |-> transport, request |-> request, fail |-> fail, reply |-> reply]

NoExchange ==
    Exchange("none", McpRequest(None, "", "", NoArguments), FALSE, Reply("none", 0, NoText))

\* get_run(args): the queries are outside any except clause, so a storage
\* error (fail) propagates to handle_request
mcp_get_run(d, args, asc) ==
    IF args.run_id = None THEN ErrorText("run_id is required")
    ELSE IF ~RunExists(d, args.run_id[1]) THEN ErrorText("Run not found")
    ELSE [NoText EXCEPT !.run_id = args.run_id[1],
                        !.nodes = NodeResponses(d, args.run_id[1], asc)]

\* list_runs(args)
mcp_list_runs(d) == [NoText EXCEPT !.count = Cardinality(d.runs)]

\* handle_request(request) of the stdio server. fail: a storage error in the
\* tool; asc: the order the database gives rows of equal order
handle_request(request, fail, asc) ==
    \E args \in {request.arguments} :
    IF request.method = "tools/call" /\ request.name = "ingest_trace"
    THEN /\ McpIngest(TraceOf(args), fail)
         /\ mcp' = Exchange("stdio", request, fail,
                     Result(IF last'.result = "ingested"
                            THEN [NoText EXCEPT !.status = "ingested",
                                                !.run_id = last'.run_id,
                                                !.count = Len(args.nodes)]
                            ELSE ErrorText("storage error")))
    ELSE /\ UNCHANGED ingestVars
         /\ mcp' = Exchange("stdio", request, fail,
              CASE request.method \in {"initialize", "tools/list"} -> Result(NoText)
                [] request.method = "tools/call" /\ request.name = "get_run" ->
                     IF fail THEN Error(-32603) ELSE Result(mcp_get_run(db, args, asc))
                [] request.method = "tools/call" /\ request.name = "list_runs" ->
                     IF fail THEN Error(-32603) ELSE Result(mcp_list_runs(db))
                [] request.method = "tools/call" -> Error(-32602)
                [] OTHER -> Error(-32601))

\* the tools of the HTTP transport
HttpTools == {"start_run", "log_step"}

\* start_run(graph_id, input_state): a run row of a new id
start_run(d) ==
    [d EXCEPT !.runs = @ \cup {[id |-> FreshRunId(d), total_tokens |-> 0,
                                total_cost |-> 0, total_latency_ms |-> 0]}]

\* log_step(run_id, node_name, output): a node row whose order is the number
\* of nodes of the run plus one; latency_ms is not set and reads as 0 here
log_step(d, run_id, node_name) ==
    [d EXCEPT !.node_executions = @ \cup
        {[id |-> FreshIds(d, 1)[1], run_id |-> run_id, node_key |-> node_name,
          order |-> Cardinality({n \in d.node_executions : n.run_id = run_id}) + 1,
          latency_ms |-> 0]}]

\* arguments of the calls of the HTTP tools: complete, with only the
\* parameters the tool's schema requires, or empty
HttpToolArguments ==
    {NoArguments}
      \cup {[NoArguments EXCEPT !.graph_id = Some("g"), !.input_state = s] :
                s \in {None, Some("s")}}
      \cup {[NoArguments EXCEPT !.run_id = Some(r), !.node_name = Some("n1"), !.output = o] :
                r \in {"r1", "u1"}, o \in {None, Some("o")}}

\* the bodies posted to /api/mcp/messages
HttpBodies ==
    {McpRequest(Some(1), m, "", NoArguments) : m \in {"initialize", "tools/list", "resources/list"}}
      \cup {McpRequest(None, "notifications/initialized", "", NoArguments)}
      \cup {ToolCall(name, a) : name \in HttpTools, a \in HttpToolArguments}
      \cup {ToolCall("ingest_trace", NoArguments)}

\* TOOLS[name]["fn"](**args): TypeError when a parameter without a default is
\* missing
BindsArguments(name, args) ==
    IF name = "start_run"
    THEN /\ args.graph_id # None /\ args.input_state # None
         /\ args.run_id = None /\ args.node_name = None /\ args.output = None
    ELSE /\ args.run_id # None /\ args.node_name # None /\ args.output # None
         /\ args.graph_id = None /\ args.input_state = None

\* handle_messages(request) of POST /api/mcp/messages. parses: request.json()
\* returned; fail: a storage error in the tool
handle_messages(body, parses, fail) ==
    \E args \in {body.arguments} :
    \E calls \in {parses /\ body.method = "tools/call" /\ body.name \in HttpTools
                    /\ BindsArguments(body.name, args) /\ ~fail} :
    \E stored \in {calls /\ (body.name = "log_step" => RunExists(db, args.run_id[1]))} :
      /\ stored => StoredRows(db) + 1 <= MaxStored
      /\ db' = IF ~stored THEN db
               ELSE IF body.name = "start_run" THEN start_run(db)
               ELSE log_step(db, args.run_id[1], args.node_name[1])
      /\ UNCHANGED <<last, ingested, resp>>
      /\ mcp' = Exchange("http", body, fail,
           CASE ~parses -> Reply("500", 0, NoText)
             [] body.method \in {"initialize", "tools/list"} -> Result(NoText)
             [] body.method = "notifications/initialized" -> Reply("empty", 0, NoText)
             [] body.method = "tools/call" /\ body.name \notin HttpTools -> Error(-32601)
             [] body.method = "tools/call" /\ body.name = "start_run" ->
                  IF stored THEN Result([NoText EXCEPT !.run_id = FreshRunId(db)])
                  ELSE Error(-32000)
             [] body.method = "tools/call" /\ body.name = "log_step" ->
                  IF ~BindsArguments(body.name, args) THEN Error(-32000)
                  ELSE Result([NoText EXCEPT !.status = IF stored THEN "True" ELSE "False"])
             [] OTHER -> Reply("bare", 0, NoText))

(***************************************************************************)
(* The stdio loop (mcp/server.py, main)                                    *)
(*                                                                         *)
(* stdio.lines are the lines written to standard input so far, closed      *)
(* whether the writer has closed it, pos the number of lines main has      *)
(* read, out the replies written to standard output, each with the number  *)
(* of the line it answers, pc where main is.                               *)
(***************************************************************************)
\* at most MaxLines lines are written to standard input
MaxLines == 3

\* the requests written to the stdio server
StdioRequests ==
    {McpRequest(Some(1), m, "", NoArguments) : m \in {"tools/list", "resources/list"}}
      \cup {ToolCall("get_run", [NoArguments EXCEPT !.run_id = Some("r1")])}
      \cup {McpRequest(None, "notifications/initialized", "", NoArguments)}

\* a line: text that is not JSON, JSON that is not an object, or a request
\* object; long: the line exceeds the limit of the StreamReader (64 KiB)
Line(kind, long, request) == [kind |-> kind, long |-> long, request |-> request]

Lines ==
    {Line(k, FALSE, NoExchange.request) : k \in {"garbage", "not_object"}}
      \cup {Line("request", long, r) : long \in BOOLEAN, r \in StdioRequests}

NoStdio == [lines |-> <<>>, closed |-> FALSE, pos |-> 0, out |-> <<>>, pc |-> "reading"]

\* the client writes a line
StdinWrite(line) ==
    /\ ~stdio.closed
    /\ Len(stdio.lines) < MaxLines
    /\ stdio' = [stdio EXCEPT !.lines = Append(@, line)]
    /\ UNCHANGED <<ingestVars, mcp>>

\* the client closes standard input
StdinClose ==
    /\ ~stdio.closed
    /\ stdio' = [stdio EXCEPT !.closed = TRUE]
    /\ UNCHANGED <<ingestVars, mcp>>

\* one turn of the while loop of main: readline, then json.loads,
\* handle_request and the write of the reply inside the try.  readline
\* raises ValueError for a line over the limit, outside the try: main ends
main(fail, asc) ==
    /\ stdio.pc = "reading"
    /\ IF stdio.pos = Len(stdio.lines)
       THEN /\ stdio.closed
            /\ stdio' = [stdio EXCEPT !.pc = "ended"]
            /\ UNCHANGED <<ingestVars, mcp>>
       ELSE \E n \in {stdio.pos + 1} :
            \E line \in {stdio.lines[n]} :
              IF line.long
              THEN /\ stdio' = [stdio EXCEPT !.pc = "raised"]
                   /\ UNCHANGED <<ingestVars, mcp>>
              ELSE IF line.kind # "request"
              THEN /\ stdio' = [stdio EXCEPT !.pos = n]
                   /\ UNCHANGED <<ingestVars, mcp>>
              ELSE /\ handle_request(line.request, fail, asc)
                   /\ stdio' = [stdio EXCEPT !.pos = n,
                          !.out = Append(@, [line |-> n, reply |-> mcp'.reply])]

(***************************************************************************)
(* The extension sandbox (extensions/http_client.py)                       *)
(*                                                                         *)
(* A URL or a pattern is the record urlparse() makes of it: scheme, netloc *)
(* and path, the last two as sequences of one-character strings.           *)
(* extensions is the extensions table (name is unique), audit the          *)
(* extension_network_audit table, client the fields of one                 *)
(* ExtensionHttpClient("ext").  sent holds the calls in which the          *)
(* underlying httpx client was invoked; call describes the last sandbox    *)
(* operation.                                                              *)
(***************************************************************************)
ExtensionName == "ext"

StartsWith(s, p) == Len(p) <= Len(s) /\ SubSeq(s, 1, Len(p)) = p
EndsWith(s, p) == Len(p) <= Len(s) /\ SubSeq(s, Len(s) - Len(p) + 1, Len(s)) = p

\* str.rstrip(c)
RECURSIVE RStrip(_, _)
RStrip(s, c) ==
    IF s # <<>> /\ s[Len(s)] = c THEN RStrip(SubSeq(s, 1, Len(s) - 1), c) ELSE s

\* str.split('/')[0]
RECURSIVE SplitFirst(_)
SplitFirst(s) ==
    IF s = <<>> \/ s[1] = "/" THEN <<>> ELSE <<s[1]>> \o SplitFirst(Tail(s))

\* str.upper() on the method names used
Upper(m) == CASE m = "get" -> "GET" [] m = "post" -> "POST" [] OTHER -> m

Url(scheme, netloc, path) == [scheme |-> scheme, netloc |-> netloc, path |-> path]

\* https://a.c/v, https://b.c/v, https://a.c/w
Urls ==
    {Url("https", <<"a", ".", "c">>, <<"/", "v">>),
     Url("https", <<"b", ".", "c">>, <<"/", "v">>),
     Url("https", <<"a", ".", "c">>, <<"/", "w">>)}

Methods == {"GET", "post"}

\* permissions.network of the manifests: none; GET on https://a.c/v*;
\* any method on https://a.c/v
Manifests ==
    {<<>>,
     <<[url |-> Url("https", <<"a", ".", "c">>, <<"/", "v", "*">>),
        methods |-> Some({"get"})]>>,
     <<[url |-> Url("https", <<"a", ".", "c">>, <<"/", "v">>), methods |-> None]>>}

_url_matches_pattern(url, pattern) ==
    IF pattern.scheme # "" /\ pattern.scheme # url.scheme THEN FALSE
    ELSE
      LET pattern_host == IF pattern.netloc # <<>> THEN pattern.netloc
                          ELSE SplitFirst(pattern.path)
          url_host == url.netloc
          pattern_path == pattern.path
          url_path == IF url.path # <<>> THEN url.path ELSE <<"/">>
          path_pattern == RStrip(pattern_path, "*")
      IN  IF StartsWith(pattern_host, <<"*", ".">>)
             /\ ~EndsWith(url_host, <<".">> \o SubSeq(pattern_host, 3, Len(pattern_host)))
          THEN FALSE
          ELSE IF ~StartsWith(pattern_host, <<"*", ".">>) /\ pattern_host # url_host
          THEN FALSE
          ELSE IF pattern_path = <<>> \/ pattern_path = <<"/">>
                  \/ EndsWith(pattern_path, <<"*">>)
          THEN ~(/\ path_pattern # <<>>
                 /\ ~StartsWith(url_path, RStrip(path_pattern, "/"))
                 /\ RStrip(path_pattern, "/") # RStrip(url_path, "/"))
          ELSE RStrip(url_path, "/") = RStrip(pattern_path, "/")

\* the hosts, paths and patterns the matcher is tried on
ExampleCom == <<"e", "x", "a", "m", "p", "l", "e", ".", "c", "o", "m">>
ApiExampleCom == <<"a", "p", "i", ".">> \o ExampleCom

MatchHosts ==
    {ApiExampleCom, ExampleCom, <<"x">> \o ExampleCom,
     <<"a", ".", "b", ".">> \o ExampleCom, ExampleCom \o <<".", "c", "c">>}

MatchPaths ==
    {<<>>, <<"/">>, <<"/", "x">>, <<"/", "v", "1">>, <<"/", "v", "1", "/">>,
     <<"/", "v", "1", "/", "/">>, <<"/", "v", "1", "/", "x">>, <<"/", "v", "1", "2">>,
     <<"/", "v">>, <<"/", "v", "1", "0", "/", "x">>}

MatchUrls == {Url(sc, h, p) : sc \in {"https", "http"}, h \in MatchHosts, p \in MatchPaths}

\* https://*.example.com/*, https://api.example.com/, https://api.example.com/v1,
\* https://api.example.com/v1/*
WildcardPattern == Url("https", <<"*", ".">> \o ExampleCom, <<"/", "*">>)
HostPattern == Url("https", ApiExampleCom, <<"/">>)
ExactPattern == Url("https", ApiExampleCom, <<"/", "v", "1">>)
PrefixPattern == Url("https", ApiExampleCom, <<"/", "v", "1", "/", "*">>)
MatchPatterns == {WildcardPattern, HostPattern, ExactPattern, PrefixPattern}

NoMatch == [url |-> Url("", <<>>, <<>>), pattern |-> Url("", <<>>, <<>>), result |-> None]

\* one call of _url_matches_pattern(url, pattern)
Match ==
    /\ matched.result = None
    /\ matched' = [matched EXCEPT
                     !.result = Some(_url_matches_pattern(matched.url, matched.pattern))]

\* for perm in allowed_urls: skip a permission whose methods exclude the
\* method, allow on the first pattern that matches
PermAllows(perm, url, method) ==
    /\ perm.methods = None \/ perm.methods[1] = {}
         \/ Upper(method) \in {Upper(m) : m \in perm.methods[1]}
    /\ _url_matches_pattern(url, perm.url)

\* _check_url_allowed, given the allowed_urls of _get_extension_info
_check_url_allowed(allowed_urls, url, method) ==
    IF allowed_urls = <<>>
    THEN [allowed |-> FALSE, reason |-> "No network permissions defined in manifest"]
    ELSE IF \E i \in 1..Len(allowed_urls) : PermAllows(allowed_urls[i], url, method)
    THEN [allowed |-> TRUE, reason |-> ""]
    ELSE [allowed |-> FALSE, reason |-> "URL not in whitelist"]

\* _get_extension_info: the cached id and patterns, or those of the row of
\* the client's extension name; found is FALSE where ValueError is raised
_get_extension_info(c, exts) ==
    IF c.extension_id # None /\ c.allowed_urls # None
    THEN [found |-> TRUE, client |-> c]
    ELSE IF \E e \in exts : e.name = ExtensionName
    THEN LET ext == CHOOSE e \in exts : e.name = ExtensionName
         IN  [found |-> TRUE,
              client |-> [extension_id |-> Some(ext.id), allowed_urls |-> Some(ext.manifest.network)]]
    ELSE [found |-> FALSE, client |-> c]

\* a mutant of InvokesClient: the request is made before the whitelist is read
InvokesClient_Always(allowed) == TRUE

\* if not allowed: ... raise PermissionError; the lines after it call
\* self._client.request
InvokesClient(allowed) == allowed

\* str.lower() on the header names used
Lower(k) ==
    CASE k = "Authorization" -> "authorization"
      [] k = "Set-Cookie" -> "set-cookie"
      [] k = "X-Api-Key" -> "x-api-key"
      [] OTHER -> k

Redacted == "[REDACTED]"

\* safe_headers: a dict is a function from header names to values, None and
\* the empty dict are both <<>>; the value of a name in the tuple of
\* _log_request is replaced, and an empty result is stored as None
SafeHeaders(headers, names) ==
    IF DOMAIN headers = {} THEN None
    ELSE [k \in DOMAIN headers |->
             IF Lower(k) \in names THEN Redacted ELSE headers[k]]

\* if k.lower() in ('authorization', 'x-api-key', 'api-key', 'cookie')
RequestRedacted == {"authorization", "x-api-key", "api-key", "cookie"}

\* if k.lower() in ('set-cookie', 'authorization')
ResponseRedacted == {"set-cookie", "authorization"}

\* the headers of a call: those the extension passes and those of the
\* response (httpx gives the response names in lower case)
NoHeaders == [request |-> <<>>, response |-> <<>>]

HeaderCases ==
    {NoHeaders,
     [request |-> [k \in {"Authorization", "Set-Cookie", "Accept"} |->
                      IF k = "Accept" THEN "json" ELSE "secret"],
      response |-> [k \in {"set-cookie", "x-api-key", "content-type"} |->
                      IF k = "content-type" THEN "json" ELSE "secret"]]}

\* the row _log_request adds for call n
AuditRow(n, c, method, url, allowed, reason, status, elapsed_ms, error, reqh, resph) ==
    [id |-> n, extension_id |-> c.extension_id[1], extension_name |-> ExtensionName,
     target_url |-> url, method |-> Upper(method), allowed |-> allowed,
     blocked_reason |-> reason, response_status |-> status,
     response_time_ms |-> elapsed_ms, error |-> error,
     request_headers |-> SafeHeaders(reqh, RequestRedacted),
     response_headers |-> SafeHeaders(resph, ResponseRedacted)]

\* db.add(audit); db.commit() inside try / except Exception: rollback, print.
\* The insert fails when the storage fails or when the extension row that
\* extension_id references is gone
_log_request(rows, exts, row, storageFails) ==
    IF storageFails \/ ~\E e \in exts : e.id = row.extension_id THEN rows
    ELSE rows \cup {row}

\* elapsed_ms = int((datetime.utcnow() - start_time).total_seconds() * 1000)
ElapsedTimes == {0, 7}

\* request(method, url, headers): transportOk is the outcome of
\* self._client.request, hdr.response the headers of its response,
\* storageFails a storage error at the audit insert
Request(method, url, hdr, transportOk, storageFails) ==
    \E n \in {call.n + 1} :
    \E info \in {_get_extension_info(client, extensions)} :
        /\ call.n < MaxCalls
        /\ client' = info.client
        /\ UNCHANGED extensions
        /\ IF ~info.found
           THEN /\ call' = [n |-> n, op |-> "request", outcome |-> "ValueError"]
                /\ UNCHANGED <<audit, sent>>
           ELSE \E chk \in {_check_url_allowed(info.client.allowed_urls[1], url, method)} :
                \E invoked \in {InvokesClient(chk.allowed)} :
                \E elapsed_ms \in IF chk.allowed THEN {Some(ms) : ms \in ElapsedTimes}
                                  ELSE {None} :
                  /\ sent' = IF invoked THEN sent \cup {n} ELSE sent
                  /\ audit' = _log_request(audit, extensions,
                                 AuditRow(n, info.client, method, url, chk.allowed,
                                          IF chk.allowed THEN None ELSE Some(chk.reason),
                                          IF chk.allowed /\ transportOk THEN Some(200) ELSE None,
                                          elapsed_ms,
                                          IF chk.allowed /\ ~transportOk
                                          THEN Some("transport error") ELSE None,
                                          hdr.request,
                                          IF chk.allowed /\ transportOk
                                          THEN hdr.response ELSE <<>>),
                                 storageFails)
                  /\ call' = [n |-> n, op |-> "request",
                              outcome |-> IF ~chk.allowed THEN "PermissionError"
                                          ELSE IF transportOk THEN "returned"
                                          ELSE "TransportError"]

\* ExtensionHttpClient(extension_name): nothing is cached yet
NewClient ==
    /\ client # [extension_id |-> None, allowed_urls |-> None]
    /\ client' = [extension_id |-> None, allowed_urls |-> None]
    /\ call' = [call EXCEPT !.op = "new_client", !.outcome = ""]
    /\ UNCHANGED <<extensions, audit, sent>>

(***************************************************************************)
(* The extension lifecycle (extensions/manager.py, api/server.py)          *)
(*                                                                         *)
(* fs is the extensions directory: install path (name, version) to the     *)
(* tree stored there.  manager holds the three dictionaries of             *)
(* ExtensionManager, routes is app.routes.  A route carries the id of the  *)
(* extension and of the tree whose register function added it.  op         *)
(* describes the last lifecycle call.                                      *)
(***************************************************************************)
Names == {"ext", "ext2"}

NameChars(name) ==
    CASE name = "ext" -> <<"e", "x", "t">>
      [] name = "ext2" -> <<"e", "x", "t", "2">>
      [] name = "by" -> <<"b", "y">>

\* prefix = f"/api/extensions/{name}"
ApiPrefix(name) == <<"/api/extensions/">> \o NameChars(name)

\* get_extension_path(name, version): EXTENSIONS_DIR / f"{name}@{version}"
get_extension_path(name, version) == <<name, version>>

\* what a backend module does when it is loaded: loads is FALSE when the
\* module or its register function is missing or raises, routes are the
\* routes register(router) adds, cleanup whether it returns a callable
Backend(loads, rts, cleanup) == [loads |-> loads, routes |-> rts, cleanup |-> cleanup]

HttpRoute(sub) == [sub |-> sub, kind |-> "route"]
WebSocketRoute(sub) == [sub |-> sub, kind |-> "websocket"]

\* a package tree: backend is None without a backend directory
Tree(id, backend) == [id |-> id, backend |-> backend]

\* what a copytree that failed half way leaves behind
PartialTree(id) == [id |-> id, backend |-> None]

ManifestOf(name, version, backend_entry, frontend_entry, network) ==
    [name |-> name, version |-> version, backend_entry |-> backend_entry,
     frontend_entry |-> frontend_entry, network |-> network]

\* an uploaded file: fault is what is wrong with the archive
Package(fault, manifest, tree) == [fault |-> fault, manifest |-> manifest, tree |-> tree]

NoManifest == ManifestOf(None, None, FALSE, FALSE, <<>>)

\* archives that cannot be installed: not a zip file, no manifest.json,
\* manifest.json that is not JSON, no version, no entry point
BadPackages ==
    {Package("bad_zip", NoManifest, Tree(10, None)),
     Package("no_manifest", NoManifest, Tree(11, None)),
     Package("bad_json", NoManifest, Tree(12, None)),
     Package("none", ManifestOf(Some("ext"), None, TRUE, FALSE, <<>>), Tree(13, None)),
     Package("none", ManifestOf(Some("ext"), Some("1"), FALSE, FALSE, <<>>), Tree(14, None))}

\* ext@1 with a backend; ext@1 again with other routes and no cleanup;
\* ext@2 without a backend; ext@1 whose backend does not load
GoodPackages ==
    {Package("none", ManifestOf(Some("ext"), Some("1"), TRUE, FALSE, <<>>),
             Tree(1, Some(Backend(TRUE, <<HttpRoute(<<"/", "p">>)>>, TRUE)))),
     Package("none", ManifestOf(Some("ext"), Some("1"), TRUE, TRUE, <<>>),
             Tree(2, Some(Backend(TRUE, <<HttpRoute(<<"/", "q">>),
                                          WebSocketRoute(<<"/", "w">>)>>, FALSE)))),
     Package("none", ManifestOf(Some("ext"), Some("2"), FALSE, TRUE, <<>>),
             Tree(3, None)),
     Package("none", ManifestOf(Some("ext"), Some("1"), TRUE, FALSE, <<>>),
             Tree(4, Some(Backend(FALSE, <<>>, FALSE))))}

Packages == BadPackages \cup GoodPackages

\* the packages of the sandbox: ext@1 without a backend, one for each
\* permissions.network
SandboxPackages ==
    {Package("none", ManifestOf(Some(ExtensionName), Some("1"), FALSE, TRUE, network),
             Tree(0, None)) : network \in Manifests}

\* validate_manifest
validate_manifest(manifest) ==
    /\ manifest.name # None
    /\ manifest.version # None
    /\ manifest.backend_entry \/ manifest.frontend_entry

Without(f, x) == [y \in DOMAIN f \ {x} |-> f[y]]

\* install_from_zip: copy is the outcome of shutil.copytree, "ok", "partial"
\* (it raised after writing a part) or "nothing" (it raised at once)
install_from_zip(files, pkg, copy) ==
    IF pkg.fault # "none" \/ ~validate_manifest(pkg.manifest)
    THEN [success |-> FALSE, fs |-> files]
    ELSE LET install_path == get_extension_path(pkg.manifest.name[1], pkg.manifest.version[1])
             removed == Without(files, install_path)
         IN  CASE copy = "ok" ->
                    [success |-> TRUE, fs |-> removed @@ (install_path :> pkg.tree)]
               [] copy = "partial" ->
                    [success |-> FALSE,
                     fs |-> removed @@ (install_path :> PartialTree(pkg.tree.id))]
               [] OTHER -> [success |-> FALSE, fs |-> removed]

\* sys_modules holds the names of the extension modules that sys.modules has
NoManager == [loaded_extensions |-> <<>>, extension_routers |-> {},
              cleanup_handlers |-> <<>>, sys_modules |-> {}]

\* the route include_router adds for route r of the router of extension id
MountedRoute(id, name, tree, r) ==
    [path |-> ApiPrefix(name) \o r.sub, kind |-> r.kind, by |-> id, tree |-> tree]

\* load_backend: the manager and the route list after it, and its success;
\* module_from_spec and exec_module do not enter the module in sys.modules
load_backend(m, rts, files, id, name, version) ==
    LET install_path == get_extension_path(name, version)
        failed == [success |-> FALSE, manager |-> m, routes |-> rts]
    IN  IF install_path \notin DOMAIN files THEN failed
        ELSE LET tree == files[install_path]
             IN  IF tree.backend = None THEN failed
                 ELSE IF ~tree.backend[1].loads THEN failed
                 ELSE LET b == tree.backend[1]
                      IN  [success |-> TRUE,
                           routes |-> rts \o [i \in 1..Len(b.routes) |->
                                                MountedRoute(id, name, tree.id, b.routes[i])],
                           manager |->
                             [loaded_extensions |->
                                Without(m.loaded_extensions, id)
                                  @@ (id :> [name |-> name, version |-> version,
                                             tree |-> tree.id]),
                              extension_routers |-> m.extension_routers \cup {id},
                              cleanup_handlers |->
                                IF b.cleanup
                                THEN Without(m.cleanup_handlers, id) @@ (id :> tree.id)
                                ELSE m.cleanup_handlers,
                              sys_modules |-> m.sys_modules]]

\* _remove_routes_by_prefix: the routes that are Route instances (a
\* WebSocketRoute is neither a Route nor a Mount) and whose path starts with
\* the prefix are removed
RECURSIVE _remove_routes_by_prefix(_, _)
_remove_routes_by_prefix(routes_list, prefix) ==
    IF routes_list = <<>> THEN <<>>
    ELSE IF routes_list[1].kind = "route" /\ StartsWith(routes_list[1].path, prefix)
    THEN _remove_routes_by_prefix(Tail(routes_list), prefix)
    ELSE <<routes_list[1]>> \o _remove_routes_by_prefix(Tail(routes_list), prefix)

\* the trees whose cleanup callable raises when it is called
RaisingTrees == {5, 7}

\* self.cleanup_handlers[extension_id](): a handler is known by the tree
\* whose register function returned it
CleanupRaises(handler) == handler \in RaisingTrees

\* unload_backend: the handler is called inside try / except Exception: pass,
\* so what follows the call is the same whether it raises or returns
unload_backend(m, rts, id) ==
    IF id \notin DOMAIN m.loaded_extensions
    THEN [manager |-> m, routes |-> rts]
    ELSE [manager |-> [loaded_extensions |-> Without(m.loaded_extensions, id),
                       extension_routers |-> m.extension_routers \ {id},
                       cleanup_handlers |-> Without(m.cleanup_handlers, id),
                       sys_modules |-> m.sys_modules \ {m.loaded_extensions[id].name}],
          routes |-> IF id \in m.extension_routers
                     THEN _remove_routes_by_prefix(
                              rts, ApiPrefix(m.loaded_extensions[id].name))
                     ELSE rts]

\* the ids in use as an extension id
UsedExtensionIds ==
    {e.id : e \in extensions} \cup {a.extension_id : a \in audit}
      \cup Range(client.extension_id) \cup DOMAIN manager.loaded_extensions
      \cup {routes[i].by : i \in 1..Len(routes)}
      \cup {d.extension_id : d \in extension_data}
      \cup UNION {Range(storage[name]) : name \in DOMAIN storage}

\* an id no extension has
UnknownId == 0

\* the routes of the list that extension id added
RoutesOf(rts, id) == SelectSeq(rts, LAMBDA r : r.by = id)

RowsOf(id) == {e \in extensions : e.id = id}

OpRecord(name, id, requested, result, loaded) ==
    [op |-> name, id |-> id, requested |-> requested, result |-> result,
     loaded |-> loaded, routes_before |-> RoutesOf(routes, id)]

\* the row install_extension writes for a manifest: the row of that name
\* with the new version and manifest, or a new enabled row
InstalledRow(existing, ext_id, manifest) ==
    IF existing # {}
    THEN [(CHOOSE e \in existing : TRUE) EXCEPT
            !.version = manifest.version[1], !.manifest = manifest,
            !.has_backend = manifest.backend_entry,
            !.has_frontend = manifest.frontend_entry]
    ELSE [id |-> ext_id, name |-> manifest.name[1], version |-> manifest.version[1],
          status |-> "enabled", manifest |-> manifest,
          install_path |-> get_extension_path(manifest.name[1], manifest.version[1]),
          has_backend |-> manifest.backend_entry,
          has_frontend |-> manifest.frontend_entry]

\* POST /api/extensions/install: dbFails is a failure of db.commit()
install_extension(pkg, copy, dbFails) ==
    \E r \in {install_from_zip(fs, pkg, copy)} :
      /\ fs' = r.fs
      /\ call' = [call EXCEPT !.op = "install", !.outcome = ""]
      /\ UNCHANGED <<client, audit, sent, extension_data>>
      /\ IF ~r.success
         THEN /\ op' = OpRecord("install", UnknownId, "", "failed", FALSE)
              /\ UNCHANGED <<extensions, manager, routes>>
         ELSE LET manifest == pkg.manifest
                  name == manifest.name[1]
                  existing == {e \in extensions : e.name = name}
                  ext_id == IF existing # {} THEN (CHOOSE e \in existing : TRUE).id
                            ELSE FreshFrom(UsedExtensionIds, 1, 1)[1]
                  l == IF manifest.backend_entry
                       THEN load_backend(manager, routes, r.fs, ext_id, name,
                                         manifest.version[1])
                       ELSE [success |-> FALSE, manager |-> manager, routes |-> routes]
              IN  IF dbFails
                  THEN /\ op' = OpRecord("install", ext_id, "", "error", FALSE)
                       /\ UNCHANGED <<extensions, manager, routes>>
                  ELSE /\ Len(l.routes) <= MaxRoutes
                       /\ extensions' = (extensions \ existing)
                                          \cup {InstalledRow(existing, ext_id, manifest)}
                       /\ manager' = l.manager
                       /\ routes' = l.routes
                       /\ op' = OpRecord("install", ext_id, "", "ok", l.success)

\* DELETE /api/extensions/{extension_id}: rmFails is a failure of
\* shutil.rmtree, dbFails one of db.commit(); the data and audit rows go with
\* the extension row (ondelete='CASCADE')
uninstall_extension(id, rmFails, dbFails) ==
    /\ call' = [call EXCEPT !.op = "uninstall", !.outcome = ""]
    /\ UNCHANGED <<client, sent>>
    /\ IF RowsOf(id) = {}
       THEN /\ op' = OpRecord("uninstall", id, "", "not_found", FALSE)
            /\ UNCHANGED <<extensions, audit, extension_data, fs, manager, routes>>
       ELSE LET ext == CHOOSE e \in extensions : e.id = id
                u == unload_backend(manager, routes, id)
            IN  /\ manager' = u.manager
                /\ routes' = u.routes
                /\ fs' = IF rmFails THEN fs
                         ELSE Without(fs, get_extension_path(ext.name, ext.version))
                /\ IF dbFails
                   THEN /\ op' = OpRecord("uninstall", id, "", "error", FALSE)
                        /\ UNCHANGED <<extensions, audit, extension_data>>
                   ELSE /\ extensions' = extensions \ {ext}
                        /\ audit' = {a \in audit : a.extension_id # id}
                        /\ extension_data' = {d \in extension_data : d.extension_id # id}
                        /\ op' = OpRecord("uninstall", id, "",
                                          IF rmFails THEN "not_removed" ELSE "ok", FALSE)

Statuses == {"enabled", "disabled", "paused"}

\* the branch update_extension_status takes for the row it has read: unload
\* when an enabled row is disabled, load when a disabled row with a backend
\* is enabled, nothing otherwise
StatusBranch(ext, m, rts, files, status) ==
    IF status = "disabled" /\ ext.status = "enabled"
    THEN unload_backend(m, rts, ext.id) @@ [success |-> FALSE]
    ELSE IF status = "enabled" /\ ext.status = "disabled"
            /\ ext.has_backend /\ ext.manifest.backend_entry
    THEN load_backend(m, rts, files, ext.id, ext.name, ext.version)
    ELSE [success |-> FALSE, manager |-> m, routes |-> rts]

\* PATCH /api/extensions/{extension_id}/status
update_extension_status(id, status) ==
    /\ call' = [call EXCEPT !.op = "status", !.outcome = ""]
    /\ UNCHANGED <<client, audit, sent, extension_data, fs>>
    /\ IF RowsOf(id) = {}
       THEN /\ op' = OpRecord("status", id, status, "not_found", FALSE)
            /\ UNCHANGED <<extensions, manager, routes>>
       ELSE IF status \notin {"enabled", "disabled"}
       THEN /\ op' = OpRecord("status", id, status, "bad_request", FALSE)
            /\ UNCHANGED <<extensions, manager, routes>>
       ELSE LET ext == CHOOSE e \in extensions : e.id = id
                r == StatusBranch(ext, manager, routes, fs, status)
            IN  /\ Len(r.routes) <= MaxRoutes
                /\ manager' = r.manager
                /\ routes' = r.routes
                /\ extensions' = (extensions \ {ext}) \cup {[ext EXCEPT !.status = status]}
                /\ op' = OpRecord("status", id, status, "ok", r.success)

(***************************************************************************)
(* Two status updates of one extension at the same time.  The endpoint is  *)
(* a plain function, which the server runs in a thread of its pool, each   *)
(* request with a database session of its own.  A call reads the row, then *)
(* loads or unloads, then writes the status and commits; updates holds the *)
(* two calls and the state they started from.                              *)
(***************************************************************************)
StatusWorkers == {1, 2}

\* the state the status, the manager and the routes of the extension are in
Snapshot(ext, m, rts) == [status |-> ext.status, manager |-> m, routes |-> rts]

NoUpdates == [start |-> None, calls |-> <<>>]

\* no status update is under way
Quiet == \A w \in DOMAIN updates.calls : updates.calls[w].pc = "done"

\* two PATCH .../status requests for extension id arrive
BeginUpdates(id, s1, s2) ==
    /\ Quiet
    /\ \E ext \in RowsOf(id) :
         updates' = [start |-> Some([ext |-> ext, manager |-> manager, routes |-> routes]),
                     calls |-> (1 :> [status |-> s1, pc |-> "read", ext |-> None])
                               @@ (2 :> [status |-> s2, pc |-> "read", ext |-> None])]
    /\ UNCHANGED <<extensions, manager, routes>>

\* ext = db.query(Extension).filter(Extension.id == extension_id).first()
ReadRow(w) ==
    /\ w \in DOMAIN updates.calls
    /\ updates.calls[w].pc = "read"
    /\ \E ext \in RowsOf(updates.start[1].ext.id) :
         updates' = [updates EXCEPT !.calls[w].ext = Some(ext), !.calls[w].pc = "branch"]
    /\ UNCHANGED <<extensions, manager, routes>>

\* extension_manager.unload_backend / load_backend, for the row as it was read
LoadOrUnload(w) ==
    /\ w \in DOMAIN updates.calls
    /\ updates.calls[w].pc = "branch"
    /\ \E r \in {StatusBranch(updates.calls[w].ext[1], manager, routes, fs,
                              updates.calls[w].status)} :
         /\ Len(r.routes) <= MaxRoutes
         /\ manager' = r.manager
         /\ routes' = r.routes
    /\ updates' = [updates EXCEPT !.calls[w].pc = "commit"]
    /\ UNCHANGED extensions

\* ext.status = update.status; db.commit(): the UPDATE sets the status column
\* when the value differs from the one the session has read
CommitStatus(w) ==
    /\ w \in DOMAIN updates.calls
    /\ updates.calls[w].pc = "commit"
    /\ extensions' =
         IF updates.calls[w].status = updates.calls[w].ext[1].status THEN extensions
         ELSE {IF e.id = updates.calls[w].ext[1].id
               THEN [e EXCEPT !.status = updates.calls[w].status] ELSE e : e \in extensions}
    /\ updates' = [updates EXCEPT !.calls[w].pc = "done"]
    /\ UNCHANGED <<manager, routes>>

\* the state after update_extension_status(status) from snapshot-and-row s
AfterUpdate(s, status) ==
    LET r == StatusBranch(s.ext, s.manager, s.routes, fs, status)
    IN  [ext |-> [s.ext EXCEPT !.status = status], manager |-> r.manager,
         routes |-> r.routes]

\* the package of the extension whose status is updated
StatusPackages == {pkg \in GoodPackages : pkg.tree.id = 1}

(***************************************************************************)
(* Two installs at the same time.  install_extension is an async function  *)
(* of the one server process: it runs on the event loop, gives way at      *)
(* await file.read() and nowhere else, so what follows the read runs to    *)
(* its end before another install continues.  installs holds the calls.    *)
(***************************************************************************)
InstallWorkers == {1, 2}

NoInstalls == <<>>

InstallsQuiet == \A w \in DOMAIN installs : installs[w].pc = "done"

\* two POST /api/extensions/install requests arrive
BeginInstalls(p1, p2) ==
    /\ InstallsQuiet
    /\ installs' = (1 :> [pkg |-> p1, pc |-> "read", result |-> ""])
                   @@ (2 :> [pkg |-> p2, pc |-> "read", result |-> ""])

\* content = await file.read(); temp_file.write(content)
ReadUpload(w) ==
    /\ w \in DOMAIN installs
    /\ installs[w].pc = "read"
    /\ installs' = [installs EXCEPT ![w].pc = "install"]

\* the rest of install_extension, from install_from_zip to the response
InstallUpload(w) ==
    /\ w \in DOMAIN installs
    /\ installs[w].pc = "install"
    /\ install_extension(installs[w].pkg, "ok", FALSE)
    /\ installs' = [installs EXCEPT ![w].pc = "done", ![w].result = op'.result]

(***************************************************************************)
(* Extension storage (extensions/storage.py and the data endpoints of      *)
(* api/server.py)                                                          *)
(*                                                                         *)
(* extension_data is the table of that name.  storage holds, for each      *)
(* extension name, the cached id of an ExtensionStorage(name) object.  A   *)
(* stored value carries the id the call that wrote it was issued against.  *)
(* got describes the last storage call: the id it was issued against, the  *)
(* rows it returned data of, and how it ended.                             *)
(***************************************************************************)
Keys == {<<"k">>, <<"k", "2">>}

\* prefix: Optional[str]; None and '' are <<>>
Prefixes == {<<>>, <<"k", "2">>}

Values == {1, 2}

\* a mutant of EntryOf: the filter on the key alone
EntryOf_AnyExtension(rows, ext_id, key) == {d \in rows : d.key = key}

\* query(ExtensionData).filter(extension_id == ext_id, key == key)
EntryOf(rows, ext_id, key) == {d \in rows : d.extension_id = ext_id /\ d.key = key}

\* query(ExtensionData).filter(extension_id == ext_id), and if prefix:
\* .filter(key.startswith(prefix))
EntriesOf(rows, ext_id, prefix) ==
    {d \in rows : d.extension_id = ext_id /\ (prefix = <<>> \/ StartsWith(d.key, prefix))}

\* entry.value = value, or db.add(ExtensionData(...)); the id column of the
\* row, a new uuid that nothing reads, is left out
Upsert(rows, ext_id, key, value) ==
    LET entry == EntryOf(rows, ext_id, key)
        stored == [v |-> value, by |-> ext_id]
    IN  IF entry # {}
        THEN LET first == CHOOSE d \in entry : TRUE
             IN  (rows \ {first}) \cup {[first EXCEPT !.value = stored]}
        ELSE rows \cup {[extension_id |-> ext_id, key |-> key, value |-> stored]}

\* _get_extension_id: the cached id, or the id of the row of that name; None
\* where ValueError is raised
_get_extension_id(name) ==
    IF storage[name] # None THEN storage[name]
    ELSE IF \E e \in extensions : e.name = name
    THEN Some((CHOOSE e \in extensions : e.name = name).id)
    ELSE None

Got(name, against, returned, outcome) ==
    [op |-> name, against |-> against, returned |-> returned, outcome |-> outcome]

\* the part common to the methods of ExtensionStorage(name): f(ext_id) is
\* what the method does with the id, [rows, returned, outcome]
StorageMethod(method, name, f(_)) ==
    \E id \in {_get_extension_id(name)} :
      /\ storage' = [storage EXCEPT ![name] = id]
      /\ IF id = None
         THEN /\ got' = Got(method, None, {}, "ValueError")
              /\ UNCHANGED extension_data
         ELSE \E r \in {f(id[1])} :
                /\ extension_data' = r.rows
                /\ got' = Got(method, id, r.returned, r.outcome)

\* the part common to the data endpoints: 404 without a row of that id
DataEndpoint(endpoint, ext_id, f(_)) ==
    /\ UNCHANGED storage
    /\ IF RowsOf(ext_id) = {}
       THEN /\ got' = Got(endpoint, Some(ext_id), {}, "404")
            /\ UNCHANGED extension_data
       ELSE \E r \in {f(ext_id)} :
              /\ extension_data' = r.rows
              /\ got' = Got(endpoint, Some(ext_id), r.returned, r.outcome)

Read(rows, outcome) == [rows |-> extension_data, returned |-> rows, outcome |-> outcome]

\* get(key) / GET .../data/{key}
GetEntry(ext_id, key) ==
    LET entry == EntryOf(extension_data, ext_id, key)
    IN  IF entry = {} THEN Read({}, "absent")
        ELSE Read({CHOOSE d \in entry : TRUE}, "value")

\* set(key, value) / PUT .../data/{key}: the insert of a row for an id
\* without an extension row fails on the foreign key
SetEntry(ext_id, key, value) ==
    IF EntryOf(extension_data, ext_id, key) = {} /\ RowsOf(ext_id) = {}
    THEN Read({}, "IntegrityError")
    ELSE [rows |-> Upsert(extension_data, ext_id, key, value), returned |-> {},
          outcome |-> "set"]

\* delete(key) / DELETE .../data/{key}
DeleteEntry(ext_id, key) ==
    LET entry == EntryOf(extension_data, ext_id, key)
    IN  IF entry = {} THEN Read({}, "absent")
        ELSE [rows |-> extension_data \ {CHOOSE d \in entry : TRUE}, returned |-> {},
              outcome |-> "deleted"]

\* list(prefix), get_all(prefix) / GET .../data
ListEntries(ext_id, prefix) == Read(EntriesOf(extension_data, ext_id, prefix), "listed")

\* clear()
ClearEntries(ext_id) ==
    [rows |-> extension_data \ EntriesOf(extension_data, ext_id, <<>>), returned |-> {},
     outcome |-> "cleared"]

storage_get(name, key) ==
    StorageMethod("get", name, LAMBDA id : GetEntry(id, key))
storage_set(name, key, value) ==
    StorageMethod("set", name, LAMBDA id : SetEntry(id, key, value))
storage_delete(name, key) ==
    StorageMethod("delete", name, LAMBDA id : DeleteEntry(id, key))
storage_list(name, prefix) ==
    StorageMethod("list", name, LAMBDA id : ListEntries(id, prefix))
storage_get_all(name, prefix) ==
    StorageMethod("get_all", name, LAMBDA id : ListEntries(id, prefix))
storage_clear(name) ==
    StorageMethod("clear", name, LAMBDA id : ClearEntries(id))

list_extension_data(ext_id, prefix) ==
    DataEndpoint("list_extension_data", ext_id, LAMBDA id : ListEntries(id, prefix))
get_extension_data(ext_id, key) ==
    DataEndpoint("get_extension_data", ext_id, LAMBDA id : GetEntry(id, key))
set_extension_data(ext_id, key, value) ==
    DataEndpoint("set_extension_data", ext_id, LAMBDA id : SetEntry(id, key, value))
delete_extension_data(ext_id, key) ==
    DataEndpoint("delete_extension_data", ext_id, LAMBDA id : DeleteEntry(id, key))

\* the packages of the two extensions that use the storage
StoragePackages ==
    {Package("none", ManifestOf(Some(name), Some("1"), FALSE, TRUE, <<>>), Tree(0, None)) :
       name \in Names}

\* no call of set is under way
NoSets == <<>>

\* the state of the extension platform when app.routes is rts
InitExtensionsWith(rts) ==
    /\ extensions = {}
    /\ client = [extension_id |-> None, allowed_urls |-> None]
    /\ audit = {}
    /\ sent = {}
    /\ call = [n |-> 0, op |-> "none", outcome |-> ""]
    /\ fs = <<>>
    /\ manager = NoManager
    /\ routes = rts
    /\ op = [op |-> "none", id |-> UnknownId, requested |-> "", result |-> "",
             loaded |-> FALSE, routes_before |-> <<>>]
    /\ extension_data = {}
    /\ storage = [name \in Names |-> None]
    /\ got = Got("none", None, {}, "")
    /\ updates = NoUpdates
    /\ installs = NoInstalls
    /\ mcp = NoExchange
    /\ stdio = NoStdio
    /\ posted = NoBody
    /\ sets = NoSets

InitExtensions == InitExtensionsWith(<<>>)

(***************************************************************************)
(* The URL matcher on its own: a URL and a pattern, then one call          *)
(***************************************************************************)
InitMatcher ==
    /\ db = EmptyDb
    /\ last = [op |-> "none", run_id |-> "", existed |-> FALSE, nodes_before |-> 0,
               result |-> ""]
    /\ ingested = <<>>
    /\ resp = None
    /\ InitExtensions
    /\ sent_node = NoNode
    /\ workers = <<>>
    /\ \E url \in MatchUrls, pattern \in MatchPatterns :
         matched = [url |-> url, pattern |-> pattern, result |-> None]

NextMatcher == Match /\ UNCHANGED exceptMatcher

SpecMatcher == InitMatcher /\ [][NextMatcher]_vars

(***************************************************************************)
(* The ingestion engine, one request at a time                             *)
(***************************************************************************)
Init ==
    /\ db = EmptyDb
    /\ last = [op |-> "none", run_id |-> "", existed |-> FALSE, nodes_before |-> 0,
               result |-> ""]
    /\ ingested = <<>>
    /\ resp = None
    /\ InitExtensions
    /\ sent_node = NoNode
    /\ workers = <<>>
    /\ matched = NoMatch

KnownRunIds == ClientRunIds \cup {r.id : r \in db.runs}

Next ==
    \/ \E t \in Traces, fail \in BOOLEAN :
          HttpIngest(t, fail) /\ UNCHANGED exceptIngest
    \/ \E t \in Traces, fail \in BOOLEAN :
          McpIngest(t, fail) /\ UNCHANGED exceptIngest
    \/ \E t \in Traces, failAt \in FailPoints :
          ServiceIngest(t, failAt) /\ UNCHANGED exceptIngest
    \/ \E rid \in KnownRunIds : ServiceDeleteRun(rid) /\ UNCHANGED exceptIngest
    \/ \E rid \in KnownRunIds :
       \E nid \in {None} \cup {Some(n.id) : n \in db.node_executions} :
          create_evaluation(rid, nid) /\ UNCHANGED exceptIngest
    \/ \E rid \in KnownRunIds, asc \in BOOLEAN :
          get_run(rid, asc) /\ UNCHANGED exceptIngest

Spec == Init /\ [][Next]_vars

(***************************************************************************)
(* The sandbox: one client, the extension installed and uninstalled        *)
(***************************************************************************)
NextSandbox ==
    \/ \E method \in Methods, url \in Urls, hdr \in HeaderCases,
          transportOk \in BOOLEAN, storageFails \in BOOLEAN :
          Request(method, url, hdr, transportOk, storageFails)
            /\ UNCHANGED <<exceptExtensions, lifecycleVars>>
    \/ NewClient /\ UNCHANGED <<exceptExtensions, lifecycleVars>>
    \/ \E pkg \in SandboxPackages :
          install_extension(pkg, "ok", FALSE) /\ UNCHANGED exceptExtensions
    \/ \E e \in extensions :
          uninstall_extension(e.id, FALSE, FALSE) /\ UNCHANGED exceptExtensions

SpecSandbox == Init /\ [][NextSandbox]_vars

(***************************************************************************)
(* The lifecycle endpoints, one request at a time                          *)
(***************************************************************************)
NextLifecycle ==
    \/ \E pkg \in Packages, copy \in {"ok", "partial", "nothing"}, dbFails \in BOOLEAN :
          install_extension(pkg, copy, dbFails) /\ UNCHANGED exceptExtensions
    \/ \E id \in {e.id : e \in extensions} \cup {UnknownId},
          rmFails \in BOOLEAN, dbFails \in BOOLEAN :
          uninstall_extension(id, rmFails, dbFails) /\ UNCHANGED exceptExtensions
    \/ \E id \in {e.id : e \in extensions} \cup {UnknownId}, status \in Statuses :
          update_extension_status(id, status) /\ UNCHANGED exceptExtensions

SpecLifecycle == Init /\ [][NextLifecycle]_vars

(***************************************************************************)
(* Unloading: extensions ext, ext2 and by with a backend each, next to the *)
(* routes the platform itself serves under /api/extensions                 *)
(***************************************************************************)
\* @app.get("/api/extensions/by-name/{extension_name}/data")
PlatformRoutes ==
    <<[path |-> <<"/api/extensions/", "b", "y", "-", "n", "a", "m", "e", "/",
                  "{extension_name}", "/", "d", "a", "t", "a">>,
       kind |-> "route", by |-> UnknownId, tree |-> 0]>>

\* ext@1 with an HTTP and a websocket route, ext2@1, ext@1 with an HTTP route
\* and by@1; the cleanup callables of the two ext@1 raise
UnloadPackages ==
    {Package("none", ManifestOf(Some("ext"), Some("1"), TRUE, FALSE, <<>>),
             Tree(5, Some(Backend(TRUE, <<HttpRoute(<<"/", "p">>),
                                          WebSocketRoute(<<"/", "w">>)>>, TRUE)))),
     Package("none", ManifestOf(Some("ext2"), Some("1"), TRUE, FALSE, <<>>),
             Tree(6, Some(Backend(TRUE, <<HttpRoute(<<"/", "p">>)>>, TRUE)))),
     Package("none", ManifestOf(Some("ext"), Some("1"), TRUE, FALSE, <<>>),
             Tree(7, Some(Backend(TRUE, <<HttpRoute(<<"/", "p">>)>>, TRUE)))),
     Package("none", ManifestOf(Some("by"), Some("1"), TRUE, FALSE, <<>>),
             Tree(8, Some(Backend(TRUE, <<HttpRoute(<<"/", "p">>)>>, FALSE))))}

InitUnload ==
    /\ db = EmptyDb
    /\ last = [op |-> "none", run_id |-> "", existed |-> FALSE, nodes_before |-> 0,
               result |-> ""]
    /\ ingested = <<>>
    /\ resp = None
    /\ InitExtensionsWith(PlatformRoutes)
    /\ sent_node = NoNode
    /\ workers = <<>>
    /\ matched = NoMatch

NextUnload ==
    \/ \E pkg \in UnloadPackages :
          install_extension(pkg, "ok", FALSE) /\ UNCHANGED exceptExtensions
    \/ \E id \in {e.id : e \in extensions}, status \in {"enabled", "disabled"} :
          update_extension_status(id, status) /\ UNCHANGED exceptExtensions
    \/ \E id \in {e.id : e \in extensions} :
          uninstall_extension(id, FALSE, FALSE) /\ UNCHANGED exceptExtensions

SpecUnload == InitUnload /\ [][NextUnload]_vars

(***************************************************************************)
(* Two extensions and their storage                                        *)
(***************************************************************************)
ExtensionIds == {e.id : e \in extensions}

NextStorage ==
    \/ \E pkg \in StoragePackages :
          /\ \A e \in extensions : e.name # pkg.manifest.name[1]
          /\ install_extension(pkg, "ok", FALSE) /\ UNCHANGED exceptExtensions
    \/ \E id \in ExtensionIds :
          uninstall_extension(id, FALSE, FALSE) /\ UNCHANGED exceptExtensions
    \/ \E name \in Names, key \in Keys :
          storage_get(name, key) /\ UNCHANGED exceptStorage
    \/ \E name \in Names, key \in Keys, value \in Values :
          storage_set(name, key, value) /\ UNCHANGED exceptStorage
    \/ \E name \in Names, key \in Keys :
          storage_delete(name, key) /\ UNCHANGED exceptStorage
    \/ \E name \in Names, prefix \in Prefixes :
          storage_list(name, prefix) /\ UNCHANGED exceptStorage
    \/ \E name \in Names, prefix \in Prefixes :
          storage_get_all(name, prefix) /\ UNCHANGED exceptStorage
    \/ \E name \in Names : storage_clear(name) /\ UNCHANGED exceptStorage
    \/ \E id \in ExtensionIds \cup {UnknownId}, prefix \in Prefixes :
          list_extension_data(id, prefix) /\ UNCHANGED exceptStorage
    \/ \E id \in ExtensionIds \cup {UnknownId}, key \in Keys :
          get_extension_data(id, key) /\ UNCHANGED exceptStorage
    \/ \E id \in ExtensionIds \cup {UnknownId}, key \in Keys, value \in Values :
          set_extension_data(id, key, value) /\ UNCHANGED exceptStorage
    \/ \E id \in ExtensionIds \cup {UnknownId}, key \in Keys :
          delete_extension_data(id, key) /\ UNCHANGED exceptStorage

SpecStorage == Init /\ [][NextStorage]_vars

(***************************************************************************)
(* Two calls of storage.set for one key at the same time.  Each call has a *)
(* database session of its own: it looks the entry up, then changes the    *)
(* entry it found or adds a new one, and commits.  sets holds the calls.   *)
(* Rows carry their id here, since two rows of one key differ in nothing   *)
(* else.                                                                   *)
(***************************************************************************)
SetWorkers == {1, 2}

\* at most MaxEntries rows of extension_data exist when a pair of calls begins
MaxEntries == 3

SetsQuiet == \A w \in DOMAIN sets : sets[w].pc = "done"

\* two calls of ExtensionStorage(name).set(key, value)
BeginSets(name, key, v1, v2) ==
    /\ SetsQuiet
    /\ Cardinality(extension_data) < MaxEntries
    /\ sets' = [w \in SetWorkers |->
                  [name |-> name, key |-> key, value |-> IF w = 1 THEN v1 ELSE v2,
                   pc |-> "query", ext_id |-> None, entry |-> {}, outcome |-> ""]]
    /\ UNCHANGED <<storage, extension_data>>

\* ext_id = self._get_extension_id(); entry = db.query(ExtensionData).filter(
\* extension_id == ext_id, key == key).first()
QueryEntry(w) ==
    /\ w \in DOMAIN sets
    /\ sets[w].pc = "query"
    /\ \E id \in {_get_extension_id(sets[w].name)} :
         /\ storage' = [storage EXCEPT ![sets[w].name] = id]
         /\ sets' = IF id = None
                    THEN [sets EXCEPT ![w].pc = "done", ![w].outcome = "ValueError"]
                    ELSE [sets EXCEPT ![w].pc = "commit", ![w].ext_id = id,
                                      ![w].entry = EntryOf(extension_data, id[1], sets[w].key)]
    /\ UNCHANGED extension_data

\* a mutant of UniqueViolation: the table without the unique index
UniqueViolation_NoIndex(rows, ext_id, key) == FALSE

\* Index('ix_extension_data_ext_key', 'extension_id', 'key', unique=True)
UniqueViolation(rows, ext_id, key) == EntryOf(rows, ext_id, key) # {}

\* id=str(uuid.uuid4()) of a new entry
EntryId(rows) == CHOOSE n \in 1..(Cardinality(rows) + 1) : \A d \in rows : d.id # n

\* entry.value = value, or db.add(entry); db.commit(): the UPDATE goes by the
\* id of the entry that was read, the INSERT fails on the foreign key or on
\* the unique index, and then except: db.rollback(); raise
CommitSet(w) ==
    /\ w \in DOMAIN sets
    /\ sets[w].pc = "commit"
    /\ UNCHANGED storage
    /\ LET c == sets[w]
           stored == [v |-> c.value, by |-> c.ext_id[1]]
       IN  IF c.entry # {}
           THEN /\ extension_data' =
                     {IF \E e \in c.entry : e.id = d.id THEN [d EXCEPT !.value = stored]
                      ELSE d : d \in extension_data}
                /\ sets' = [sets EXCEPT ![w].pc = "done", ![w].outcome = "set"]
           ELSE IF \/ RowsOf(c.ext_id[1]) = {}
                   \/ UniqueViolation(extension_data, c.ext_id[1], c.key)
           THEN /\ UNCHANGED extension_data
                /\ sets' = [sets EXCEPT ![w].pc = "done", ![w].outcome = "IntegrityError"]
           ELSE /\ extension_data' = extension_data \cup
                     {[id |-> EntryId(extension_data), extension_id |-> c.ext_id[1],
                       key |-> c.key, value |-> stored]}
                /\ sets' = [sets EXCEPT ![w].pc = "done", ![w].outcome = "set"]

exceptSets == <<ingestVars, sandboxVars, workers, matcherVars, fs, manager, routes,
                op, got, updates, installs, mcp, stdio, posted, sent_node>>

NextSets ==
    \/ \E pkg \in StoragePackages :
          /\ \A e \in extensions : e.name # pkg.manifest.name[1]
          /\ install_extension(pkg, "ok", FALSE) /\ UNCHANGED exceptExtensions
    \/ \E name \in Names, key \in Keys, v1 \in Values, v2 \in Values :
          BeginSets(name, key, v1, v2) /\ UNCHANGED exceptSets
    \/ \E w \in SetWorkers : QueryEntry(w) /\ UNCHANGED exceptSets
    \/ \E w \in SetWorkers : CommitSet(w) /\ UNCHANGED exceptSets

SpecSets == Init /\ [][NextSets]_vars

(***************************************************************************)
(* An extension with a backend and pairs of concurrent status updates      *)
(***************************************************************************)
NextUpdates ==
    \/ \E pkg \in StatusPackages :
          /\ extensions = {}
          /\ install_extension(pkg, "ok", FALSE) /\ UNCHANGED exceptExtensions
    \/ \E id \in ExtensionIds, s1 \in {"enabled", "disabled"}, s2 \in {"enabled", "disabled"} :
          BeginUpdates(id, s1, s2) /\ UNCHANGED exceptUpdates
    \/ \E w \in StatusWorkers : ReadRow(w) /\ UNCHANGED exceptUpdates
    \/ \E w \in StatusWorkers : LoadOrUnload(w) /\ UNCHANGED exceptUpdates
    \/ \E w \in StatusWorkers : CommitStatus(w) /\ UNCHANGED exceptUpdates

SpecUpdates == Init /\ [][NextUpdates]_vars

(***************************************************************************)
(* Pairs of concurrent installs, and uninstalls                            *)
(***************************************************************************)
exceptInstalls == <<ingestVars, workers, matcherVars, storageVars, updates, mcp, stdio,
                    posted, sent_node,
    sets>>

NextInstalls ==
    \/ \E p1 \in Packages, p2 \in Packages :
          BeginInstalls(p1, p2) /\ UNCHANGED <<exceptInstalls, sandboxVars, lifecycleVars>>
    \/ \E w \in InstallWorkers :
          ReadUpload(w) /\ UNCHANGED <<exceptInstalls, sandboxVars, lifecycleVars>>
    \/ \E w \in InstallWorkers : InstallUpload(w) /\ UNCHANGED exceptInstalls
    \/ \E id \in ExtensionIds :
          uninstall_extension(id, FALSE, FALSE) /\ UNCHANGED exceptExtensions

SpecInstalls == Init /\ [][NextInstalls]_vars

(***************************************************************************)
(* The two MCP transports, request by request                              *)
(***************************************************************************)
exceptMcp == <<sandboxVars, workers, matcherVars, lifecycleVars, storageVars, updates,
               installs, posted, sent_node,
    sets>>

\* what the exchange records for a body that is not JSON
Unparsed == NoExchange.request

\* a storage error needs a tool that uses the storage, the order of rows of
\* equal order a get_run that reads them
UsesStorage(request) ==
    /\ request.method = "tools/call"
    /\ request.name \in {"ingest_trace", "list_runs", "get_run"} \cup HttpTools

NextMcp ==
    \/ \E request \in McpRequests, fail \in BOOLEAN, asc \in BOOLEAN :
          /\ fail => UsesStorage(request)
          /\ ~asc => request.name = "get_run" /\ ~fail
          /\ handle_request(request, fail, asc) /\ UNCHANGED <<exceptMcp, stdio>>
    \/ \E body \in HttpBodies \cup {Unparsed}, fail \in BOOLEAN :
          /\ fail => UsesStorage(body)
          /\ handle_messages(body, body # Unparsed, fail)
          /\ UNCHANGED <<exceptMcp, stdio>>

SpecMcp == Init /\ [][NextMcp]_vars

(***************************************************************************)
(* Runs that are written both by POST /api/traces and by the HTTP tools.   *)
(* log_step is a coroutine without an await: on the event loop of the      *)
(* server a call runs from its count query to its commit before another    *)
(* call of a tool starts, so calls that arrive together run one after the  *)
(* other, in either order.                                                 *)
(***************************************************************************)
\* payloads of one node for run r1, without an order and with order 2
StepTraces ==
    {[run_id |-> Some("r1"),
      nodes |-> <<[node_key |-> NodeKey(1), order |-> o, messages |-> <<>>]>>,
      edges |-> <<>>] : o \in {None, Some(2)}}

\* the node name the calls of log_step give; no payload has a node of this key
StepName == "step"

\* calls of start_run and of log_step for the run of the payloads and for the
\* first run start_run creates
StepBodies ==
    {ToolCall("start_run", [NoArguments EXCEPT !.graph_id = Some("g")])}
      \cup {ToolCall("log_step", [NoArguments EXCEPT !.run_id = Some(r),
                                                      !.node_name = Some(StepName),
                                                      !.output = Some("o")]) :
              r \in {"r1", FreshRunId(EmptyDb)}}

NextSteps ==
    \/ \E t \in StepTraces, fail \in BOOLEAN :
          HttpIngest(t, fail) /\ UNCHANGED exceptIngest
    \/ \E body \in StepBodies, fail \in BOOLEAN :
          handle_messages(body, TRUE, fail) /\ UNCHANGED <<exceptMcp, stdio>>

SpecSteps == Init /\ [][NextSteps]_vars

(***************************************************************************)
(* The stdio server and the client that writes its input                   *)
(***************************************************************************)
NextStdio ==
    \/ \E line \in Lines : StdinWrite(line) /\ UNCHANGED exceptMcp
    \/ StdinClose /\ UNCHANGED exceptMcp
    \/ \E fail \in BOOLEAN : main(fail, TRUE) /\ UNCHANGED exceptMcp

SpecStdio == Init /\ [][NextStdio]_vars

(***************************************************************************)
(* Bodies posted to /api/traces, and reads of the stored runs              *)
(***************************************************************************)
exceptTraces == <<sandboxVars, workers, matcherVars, lifecycleVars, storageVars,
                  updates, installs, mcp, stdio, sent_node,
    sets>>

NextTraces ==
    \/ \E body \in PostedBodies, fail \in BOOLEAN :
          post_traces(body, fail) /\ UNCHANGED exceptTraces
    \/ \E rid \in KnownRunIds, asc \in BOOLEAN :
          get_run(rid, asc) /\ UNCHANGED <<exceptTraces, posted>>

SpecTraces == Init /\ [][NextTraces]_vars

(***************************************************************************)
(* One node of a payload through each of the ingests                       *)
(***************************************************************************)
InitNodes ==
    /\ db = EmptyDb
    /\ last = [op |-> "none", run_id |-> "", existed |-> FALSE, nodes_before |-> 0,
               result |-> ""]
    /\ ingested = <<>>
    /\ resp = None
    /\ InitExtensions
    /\ workers = <<>>
    /\ matched = NoMatch
    /\ sent_node \in {[NoNode EXCEPT !.body = b] : b \in NodeBodies}

exceptNode == <<ingestVars, sandboxVars, workers, matcherVars, lifecycleVars,
                storageVars, updates, installs, mcp, stdio, posted,
    sets>>

NextNodes ==
    \E path \in IngestPaths : StoreNode(path) /\ UNCHANGED exceptNode

SpecNodes == InitNodes /\ [][NextNodes]_vars

(***************************************************************************)
(* Two ingests of one run_id at the same time                              *)
(*                                                                         *)
(* Each worker runs ingest_trace of api/server.py ("http", one             *)
(* transaction) or of RunService ("service", the delete committed before   *)
(* the inserts) one SQL statement at a time against PostgreSQL at READ     *)
(* COMMITTED: db holds the committed rows, workers[w].del the rows w has   *)
(* deleted and workers[w].ins the run row w has inserted without a commit  *)
(* yet.  A statement sees the committed rows less its own deletes; a       *)
(* DELETE that meets a row another transaction has deleted waits for that  *)
(* transaction with the rows it had selected, and skips those that are     *)
(* gone when it resumes.  Rows carry src, the worker that wrote them;      *)
(* worker 0 is the ingest that stored the run before the two began.  The   *)
(* payloads have one node at most, so the per-node DELETE of messages is   *)
(* one statement.                                                          *)
(***************************************************************************)
ConcWorkers == {1, 2}
Other(w) == 3 - w
ConcRunId == "r1"

ConcNode(msgs) == <<[node_key |-> "n1", order |-> None, messages |-> msgs]>>

ConcTraces ==
    {[run_id |-> Some(ConcRunId), nodes |-> ns, edges |-> es] :
        ns \in {<<>>, ConcNode(<<>>),
                ConcNode(<<[total_tokens |-> Some(3), cost |-> Some(1),
                            latency_ms |-> Some(50)]>>)},
        es \in {<<>>, <<[from_node |-> "n1", to_node |-> "n2"]>>}}

Entries == {"http", "service"}

Tag(S, w) == {[src |-> w] @@ r : r \in S}

\* the rows worker w adds for payload t; the uuids of w are 100 * w + 1, ...
WorkerRows(w, t) ==
    LET ids == FreshFrom({}, 100 * w + 1, Len(t.nodes) + MsgCount(t) + Len(t.edges))
    IN  [runs |-> Tag({RunRow(t, ConcRunId)}, w),
         node_executions |-> Tag(NodeRows(t, ConcRunId, ids), w),
         messages |-> Tag(MessageRows(t, ids), w),
         edges |-> Tag(EdgeRows(t, ConcRunId, ids), w)]

NoRows == [runs |-> {}, node_executions |-> {}, messages |-> {}, edges |-> {}]

\* what a statement of w reads in table tb
Visible(w, tb) == db[tb] \ workers[w].del[tb]

\* rollback after an exception: the session is closed
Abort(wr) ==
    [wr EXCEPT !.pc = "done", !.result = "error", !.del = NoRows, !.ins = {},
               !.snap = None]

\* a DELETE of w on the rows matching of table tb: st.wait when a row it
\* selected is deleted by the open transaction of the other worker,
\* otherwise st.eff are the rows it deletes
DeleteStmt(w, tb, matching) ==
    LET sel == IF workers[w].snap = None THEN matching ELSE workers[w].snap[1]
    IN  [sel |-> sel,
         wait |-> sel \cap workers[Other(w)].del[tb] # {},
         eff |-> sel \cap db[tb]]

\* the step of w for such a DELETE: start waiting, fail on a constraint, or
\* delete and go on at pc next
DeleteStep(w, tb, st, fails, next) ==
    /\ st.wait => workers[w].snap = None
    /\ workers' = [workers EXCEPT ![w] =
          IF st.wait THEN [@ EXCEPT !.snap = Some(st.sel)]
          ELSE IF fails THEN Abort(@)
          ELSE [@ EXCEPT !.del[tb] = @ \cup st.eff, !.snap = None, !.pc = next]]
    /\ UNCHANGED db

\* a mutant of RunPkTaken: runs.id is not unique
RunPkTaken_Never(rows, rid) == FALSE

\* id = Column(String, primary_key=True): a row of that id is there
RunPkTaken(rows, rid) == \E r \in rows : r.id = rid

\* existing = db.query(Run).filter(Run.id == run_id).first()
Get(w) ==
    /\ workers[w].pc = "get"
    /\ workers' = [workers EXCEPT ![w] =
          [@ EXCEPT !.pc = IF RunExists([runs |-> Visible(w, "runs")], ConcRunId)
                           THEN "del_edges" ELSE "ins_run"]]
    /\ UNCHANGED db

\* db.query(Edge).filter(Edge.run_id == run_id).delete()
DelEdges(w) ==
    /\ workers[w].pc = "del_edges"
    /\ DeleteStep(w, "edges",
           DeleteStmt(w, "edges", {e \in Visible(w, "edges") : e.run_id = ConcRunId}),
           FALSE, "sel_nodes")

\* node_ids = db.query(NodeExecution.id).filter(...).all()
SelNodes(w) ==
    /\ workers[w].pc = "sel_nodes"
    /\ \E nids \in {{n.id : n \in {x \in Visible(w, "node_executions") :
                                      x.run_id = ConcRunId}}} :
         workers' = [workers EXCEPT ![w] =
            [@ EXCEPT !.nids = nids,
                      !.pc = IF nids = {} THEN "del_nodes" ELSE "del_msgs"]]
    /\ UNCHANGED db

\* db.query(Message).filter(Message.node_execution_id == node_id).delete()
DelMsgs(w) ==
    /\ workers[w].pc = "del_msgs"
    /\ DeleteStep(w, "messages",
           DeleteStmt(w, "messages",
               {m \in Visible(w, "messages") : m.node_execution_id \in workers[w].nids}),
           FALSE, "del_nodes")

\* db.query(NodeExecution).filter(NodeExecution.run_id == run_id).delete();
\* a message that references a deleted node violates its foreign key
DelNodes(w) ==
    /\ workers[w].pc = "del_nodes"
    /\ \E st \in {DeleteStmt(w, "node_executions",
                     {n \in Visible(w, "node_executions") : n.run_id = ConcRunId})} :
         DeleteStep(w, "node_executions", st,
             \E m \in Visible(w, "messages") :
                 m.node_execution_id \in {n.id : n \in st.eff},
             IF workers[w].entry = "service" THEN "reget" ELSE "load_rel")

\* run = self.get(run_id); if run: (RunRepository.delete_run_cascade).  With
\* no row the pending deletes stay in the session's transaction
ReGet(w) ==
    /\ workers[w].pc = "reget"
    /\ workers' = [workers EXCEPT ![w] =
          [@ EXCEPT !.pc = IF RunExists([runs |-> Visible(w, "runs")], ConcRunId)
                           THEN "load_rel" ELSE "ins_run"]]
    /\ UNCHANGED db

\* db.delete(run), flushed: the relationships of the run are loaded and the
\* children found are set to run_id NULL, which is NOT NULL
LoadRel(w) ==
    /\ workers[w].pc = "load_rel"
    /\ workers' = [workers EXCEPT ![w] =
          IF RunDeleteRaises([node_executions |-> Visible(w, "node_executions"),
                              edges |-> Visible(w, "edges"),
                              evaluations |-> db.evaluations], ConcRunId)
          THEN Abort(@) ELSE [@ EXCEPT !.pc = "del_run"]]
    /\ UNCHANGED db

\* DELETE FROM runs WHERE id = ...; no row matched is a warning only
DelRun(w) ==
    /\ workers[w].pc = "del_run"
    /\ \E st \in {DeleteStmt(w, "runs",
                     {r \in Visible(w, "runs") : r.id = ConcRunId})} :
         DeleteStep(w, "runs", st,
             /\ st.eff # {}
             /\ RunDeleteRaises([node_executions |-> Visible(w, "node_executions"),
                                 edges |-> Visible(w, "edges"),
                                 evaluations |-> db.evaluations], ConcRunId),
             IF workers[w].entry = "service" THEN "commit_del" ELSE "ins_run")

\* self.db.commit() of delete_run_cascade
CommitDelete(w) ==
    /\ workers[w].pc = "commit_del"
    /\ db' = [tb \in DOMAIN db |->
                IF tb \in DOMAIN NoRows THEN db[tb] \ workers[w].del[tb] ELSE db[tb]]
    /\ workers' = [workers EXCEPT ![w] = [@ EXCEPT !.del = NoRows, !.pc = "ins_run"]]

\* the objects are built (RunService reads node_data.status) and the flush of
\* the commit inserts the run row: it waits for an open insert or delete of
\* that id by the other worker, and fails on a row of that id
InsRun(w) ==
    /\ workers[w].pc = "ins_run"
    /\ \E buildFails \in {/\ workers[w].entry = "service"
                          /\ Len(workers[w].t.nodes) > 0
                          /\ ~SchemaHasNodeStatus} :
         /\ ~buildFails =>
               ~RunExists([runs |-> workers[Other(w)].ins \cup workers[Other(w)].del.runs],
                          ConcRunId)
         /\ workers' = [workers EXCEPT ![w] =
               IF buildFails \/ RunPkTaken(Visible(w, "runs"), ConcRunId)
               THEN Abort(@)
               ELSE [@ EXCEPT !.ins = WorkerRows(w, workers[w].t).runs, !.pc = "commit"]]
    /\ UNCHANGED db

\* the children are inserted and db.commit() ends the transaction
Commit(w) ==
    /\ workers[w].pc = "commit"
    /\ db' = [tb \in DOMAIN db |->
                IF tb \in DOMAIN NoRows
                THEN (db[tb] \ workers[w].del[tb]) \cup WorkerRows(w, workers[w].t)[tb]
                ELSE db[tb]]
    /\ workers' = [workers EXCEPT ![w] =
          [@ EXCEPT !.del = NoRows, !.ins = {}, !.pc = "done", !.result = "ingested"]]

Worker(entry, t, pc, result) ==
    [entry |-> entry, t |-> t, pc |-> pc, nids |-> {}, snap |-> None,
     del |-> NoRows, ins |-> {}, result |-> result]

\* the run is not stored, or stored by an earlier ingest; two requests arrive
InitConc ==
    /\ \E t0 \in ConcTraces, stored \in BOOLEAN :
         /\ stored \/ (t0.nodes = <<>> /\ t0.edges = <<>>)
         /\ db = IF stored THEN [tb \in DOMAIN EmptyDb |->
                                   IF tb \in DOMAIN NoRows THEN WorkerRows(0, t0)[tb]
                                   ELSE {}]
                 ELSE EmptyDb
         /\ \E e1 \in Entries, e2 \in Entries, t1 \in ConcTraces, t2 \in ConcTraces :
              workers = (0 :> Worker("http", t0, "done", IF stored THEN "ingested" ELSE ""))
                        @@ (1 :> Worker(e1, t1, "get", ""))
                        @@ (2 :> Worker(e2, t2, "get", ""))
    /\ last = [op |-> "none", run_id |-> "", existed |-> FALSE, nodes_before |-> 0,
               result |-> ""]
    /\ ingested = <<>>
    /\ resp = None
    /\ InitExtensions
    /\ sent_node = NoNode
    /\ matched = NoMatch

NextConc ==
    \/ \E w \in ConcWorkers : Get(w) /\ UNCHANGED exceptConc
    \/ \E w \in ConcWorkers : DelEdges(w) /\ UNCHANGED exceptConc
    \/ \E w \in ConcWorkers : SelNodes(w) /\ UNCHANGED exceptConc
    \/ \E w \in ConcWorkers : DelMsgs(w) /\ UNCHANGED exceptConc
    \/ \E w \in ConcWorkers : DelNodes(w) /\ UNCHANGED exceptConc
    \/ \E w \in ConcWorkers : ReGet(w) /\ UNCHANGED exceptConc
    \/ \E w \in ConcWorkers : LoadRel(w) /\ UNCHANGED exceptConc
    \/ \E w \in ConcWorkers : DelRun(w) /\ UNCHANGED exceptConc
    \/ \E w \in ConcWorkers : CommitDelete(w) /\ UNCHANGED exceptConc
    \/ \E w \in ConcWorkers : InsRun(w) /\ UNCHANGED exceptConc
    \/ \E w \in ConcWorkers : Commit(w) /\ UNCHANGED exceptConc

SpecConc == InitConc /\ [][NextConc]_vars

(***************************************************************************)
(* Properties of the ingestion engine                                      *)
(***************************************************************************)
IngestOps == {"http_ingest", "service_ingest", "mcp_ingest"}

RunNodes(d, rid) == {n \in d.node_executions : n.run_id = rid}
NodeMessages(d, nid) == {m \in d.messages : m.node_execution_id = nid}
RunMessages(d, rid) == {m \in d.messages : m.node_execution_id \in NodeIdsOf(d, rid)}
RunEdges(d, rid) == {e \in d.edges : e.run_id = rid}

\* a nullable column read with null as zero
OrZero(x) == IF x = None THEN 0 ELSE x[1]

RECURSIVE SumOver(_, _)
SumOver(S, col) ==
    IF S = {} THEN 0
    ELSE LET x == CHOOSE y \in S : TRUE
         IN  OrZero(col[x]) + SumOver(S \ {x}, col)

\* what the claims compare of a stored run: the row counts of the tables, the
\* run's aggregates, and every row's order value with its content
StoredView(d, rid) ==
    [counts |-> <<Cardinality(d.runs), Cardinality(d.node_executions),
                  Cardinality(d.messages), Cardinality(d.edges)>>,
     run |-> {r \in d.runs : r.id = rid},
     nodes |-> {<<n.node_key, n.order, n.latency_ms,
                  {<<m.order, m.total_tokens, m.cost, m.latency_ms>> :
                      m \in NodeMessages(d, n.id)}>> : n \in RunNodes(d, rid)},
     edges |-> {<<e.order, e.from_node, e.to_node>> : e \in RunEdges(d, rid)}]

\* C1: ingesting the payload that produced the stored run once more through
\* the same entry point leaves the row counts, the aggregates and the order
\* values of the run's rows as they were after the first ingest: a second
\* ingest that succeeds stores an equal view, and the MCP tool, which refuses
\* a stored run_id, changes nothing
C1_ReingestIdempotent ==
    [][/\ (/\ last'.op \in IngestOps
           /\ last'.result = "ingested"
           /\ last'.run_id \in DOMAIN ingested
           /\ ingested'[last'.run_id] = ingested[last'.run_id])
          => StoredView(db', last'.run_id) = StoredView(db, last'.run_id)
       /\ (last'.op = "mcp_ingest" /\ last'.existed) => db' = db]_vars

\* a run with nodes, messages and an edge was stored and ingested again
C1_Witness ==
    /\ last.op \in IngestOps /\ last.result = "ingested" /\ last.existed
    /\ last.nodes_before = Cardinality(db.node_executions)
    /\ Cardinality(db.node_executions) >= 1
    /\ Cardinality(db.messages) >= 1
    /\ Cardinality(db.edges) >= 1

\* C2: an ingest that fails leaves the database as it was before
\* the call
C2_FailedIngestChangesNothing ==
    [][(last'.op \in IngestOps /\ last'.result = "error") => db' = db]_vars

\* C3: the stored run's nodes, messages and edges are exactly those of the
\* payload ingested last under its run_id, and no other row is stored
C3_ReplacedNotMerged ==
    \A rid \in DOMAIN ingested :
        LET t == ingested[rid].trace
        IN  /\ Cardinality(db.node_executions) = Len(t.nodes)
            /\ Cardinality(db.messages) = MsgCount(t)
            /\ Cardinality(db.edges) = Len(t.edges)
            /\ \A i \in 1..Len(t.nodes) :
                 \E n \in RunNodes(db, rid) :
                    /\ n.node_key = t.nodes[i].node_key
                    /\ {<<m.order, m.total_tokens, m.cost, m.latency_ms>> :
                            m \in NodeMessages(db, n.id)}
                       = {<<j - 1, t.nodes[i].messages[j].total_tokens,
                            t.nodes[i].messages[j].cost,
                            t.nodes[i].messages[j].latency_ms>> :
                            j \in 1..Len(t.nodes[i].messages)}
            /\ \A k \in 1..Len(t.edges) :
                 \E e \in RunEdges(db, rid) :
                    /\ e.order = k - 1
                    /\ e.from_node = t.edges[k].from_node
                    /\ e.to_node = t.edges[k].to_node

\* a second ingest carrying one node replaced a run of two nodes or more
C3_Witness ==
    /\ last.op \in IngestOps /\ last.result = "ingested" /\ last.existed
    /\ last.nodes_before >= 2
    /\ Cardinality(db.node_executions) = 1

\* C4: every stored run's total_tokens, total_cost and total_latency_ms equal
\* the sums of the field over the messages of the run's nodes, null as zero
C4_AggregatesAreSums ==
    \A r \in db.runs :
        /\ r.total_tokens
             = SumOver(RunMessages(db, r.id), [m \in db.messages |-> m.total_tokens])
        /\ r.total_cost
             = SumOver(RunMessages(db, r.id), [m \in db.messages |-> m.cost])
        /\ r.total_latency_ms
             = SumOver(RunMessages(db, r.id), [m \in db.messages |-> m.latency_ms])

\* a run is stored with a message that has values and one whose fields are null
C4_Witness ==
    \E r \in db.runs :
        /\ r.total_tokens > 0 /\ r.total_cost > 0 /\ r.total_latency_ms > 0
        /\ \E m \in RunMessages(db, r.id) : m.total_tokens = None
        /\ Cardinality(RunMessages(db, r.id)) >= 2

OrdersDistinct(S) == \A a, b \in S : a # b => a.order # b.order

\* C5: for any payloads, no two nodes of a run and no two messages
\* of a node have the same order
C5_OrdersUnique ==
    /\ \A r \in db.runs : OrdersDistinct(RunNodes(db, r.id))
    /\ \A n \in db.node_executions : OrdersDistinct(NodeMessages(db, n.id))

\* the run detail lists the nodes of payload t in payload order, with orders
\* 0, 1, ..., n-1
NodesInPayloadOrder(r, t) ==
    /\ Len(r.nodes) = Len(t.nodes)
    /\ \A i \in 1..Len(r.nodes) :
         r.nodes[i].node_key = t.nodes[i].node_key /\ r.nodes[i].order = i - 1

\* the run detail lists each node's messages in payload order, with orders
\* 0, 1, ..., m-1
MessagesInPayloadOrder(r, t) ==
    \A i \in 1..Len(r.nodes) :
        \A k \in 1..Len(t.nodes) :
            r.nodes[i].node_key = t.nodes[k].node_key =>
                r.nodes[i].messages =
                    [j \in 1..Len(t.nodes[k].messages) |->
                        [order |-> j - 1,
                         total_tokens |-> t.nodes[k].messages[j].total_tokens,
                         cost |-> t.nodes[k].messages[j].cost,
                         latency_ms |-> t.nodes[k].messages[j].latency_ms]]

Answered200 == resp # None /\ resp[1].status = 200

\* C6: for any ingested payload the run detail returns the nodes
\* and each node's messages in payload order and the stored orders are
\* 0, 1, ..., n-1
C6_QueryInPayloadOrder ==
    Answered200 =>
        /\ NodesInPayloadOrder(resp[1], ingested[resp[1].id].trace)
        /\ MessagesInPayloadOrder(resp[1], ingested[resp[1].id].trace)

\* no stored row references run rid
NothingReferences(d, rid) ==
    /\ RunNodes(d, rid) = {}
    /\ RunEdges(d, rid) = {}
    /\ \A v \in d.evaluations : v.run_id # rid
    /\ \A m \in d.messages : \E n \in d.node_executions : n.id = m.node_execution_id

\* C7: once delete_run has been called on a stored run, or a
\* re-ingest has run its delete step on it, no row that referenced the run
\* before remains: after delete_run nothing references the run, and after
\* either no evaluation does
C7_DeleteCascades ==
    /\ (last.op = "delete_run" /\ last.existed) => NothingReferences(db, last.run_id)
    /\ (last.op \in IngestOps /\ last.existed) =>
            \A v \in db.evaluations : v.run_id # last.run_id

(***************************************************************************)
(* Properties of the sandbox                                               *)
(***************************************************************************)
\* C9: once a request through the sandbox client has returned or raised
\* (allowed, denied or failed in transport), an audit row recording that
\* attempt is stored
C9_EveryRequestAudited ==
    call.op = "request" => \E a \in audit : a.id = call.n

\* C10: the request of an audit row with allowed = FALSE was never handed to
\* the underlying HTTP client
C10_DeniedNeverSent ==
    \A a \in audit : ~a.allowed => a.id \notin sent

\* a denied request raised PermissionError and its audit row is stored, while
\* another request was sent
C10_Witness ==
    /\ call.op = "request" /\ call.outcome = "PermissionError"
    /\ \E a \in audit : a.id = call.n /\ ~a.allowed
    /\ sent # {}

(***************************************************************************)
(* Properties of concurrent ingests                                        *)
(***************************************************************************)
BothDone == \A w \in ConcWorkers : workers[w].pc = "done"

DenySet == {"authorization", "x-api-key", "api-key", "cookie", "set-cookie"}

AllRedacted(headers) ==
    \A k \in DOMAIN headers : Lower(k) \in DenySet => headers[k] = Redacted

\* C11: in every stored audit row, the value of a request or response header
\* whose name is, in any case, authorization, x-api-key, api-key, cookie or
\* set-cookie is the [REDACTED] marker
C11_DeniedHeadersRedacted ==
    \A a \in audit : AllRedacted(a.request_headers) /\ AllRedacted(a.response_headers)

Accepted == matched.result = Some(TRUE)

\* the match was made for this pattern and a URL of this scheme, host and path
Tried(pattern, sc, host, path) ==
    /\ matched.result # None
    /\ matched.pattern = pattern
    /\ matched.url = Url(sc, host, path)

\* C12: pattern https://*.example.com/* accepts https://api.example.com/x and
\* rejects https://example.com/x; pattern https://api.example.com/ accepts
\* every path on host api.example.com; pattern https://api.example.com/v1
\* accepts only the path /v1, with or without one trailing slash
C12_MatcherExamples ==
    /\ Tried(WildcardPattern, "https", ApiExampleCom, <<"/", "x">>) => Accepted
    /\ Tried(WildcardPattern, "https", ExampleCom, <<"/", "x">>) => ~Accepted
    /\ (matched.result # None /\ matched.pattern = HostPattern
          /\ matched.url.scheme = "https" /\ matched.url.netloc = ApiExampleCom)
         => Accepted
    /\ (matched.result # None /\ matched.pattern = ExactPattern /\ Accepted)
         => /\ matched.url.scheme = "https"
            /\ matched.url.netloc = ApiExampleCom
            /\ matched.url.path \in {<<"/", "v", "1">>, <<"/", "v", "1", "/">>}

(***************************************************************************)
(* Properties of the extension lifecycle                                   *)
(***************************************************************************)
Loaded(id) == id \in DOMAIN manager.loaded_extensions

\* the last call was a SetStatus(status) that completed
StatusSet(o, status) == o.op = "status" /\ o.requested = status /\ o.result = "ok"

\* C14: after a completed SetStatus(disabled) the route list holds no route
\* under /api/extensions/<name> that the extension contributed
C14_DisableUnmounts ==
    StatusSet(op, "disabled") => RoutesOf(routes, op.id) = <<>>

\* what answers on a route: its path, its kind and the tree that serves it
Answers(rts) == {[path |-> rts[i].path, kind |-> rts[i].kind, tree |-> rts[i].tree] :
                   i \in 1..Len(rts)}

MountedOnce(rts) == \A i, j \in 1..Len(rts) : rts[i].path = rts[j].path => i = j

\* C15: when an extension with a backend is disabled and then enabled, after
\* the enable its routes are mounted once each and answer as before the
\* disable
C15_DisableEnableRestores ==
    [][(/\ StatusSet(op, "disabled")
        /\ StatusSet(op', "enabled")
        /\ op'.id = op.id
        /\ \E e \in extensions : e.id = op.id /\ e.has_backend)
       => /\ MountedOnce(RoutesOf(routes', op.id))
          /\ Answers(RoutesOf(routes', op.id)) = Answers(op.routes_before)]_vars

\* C16: an extension row whose status is disabled has no backend loaded and
\* no routes mounted
C16_DisabledNotLoaded ==
    \A e \in extensions :
      e.status = "disabled" => ~Loaded(e.id) /\ RoutesOf(routes, e.id) = <<>>

\* the routes a load of the tree at the install path of row e mounts
RoutesOfTree(files, e) ==
    LET tree == files[get_extension_path(e.name, e.version)]
    IN  IF tree.backend = None \/ ~tree.backend[1].loads THEN <<>>
        ELSE [i \in 1..Len(tree.backend[1].routes) |->
                MountedRoute(e.id, e.name, tree.id, tree.backend[1].routes[i])]

\* C17: after a successful re-install of an extension that was enabled and
\* loaded, only the routes of the new package are mounted, each once, and
\* no cleanup handler of the previous load remains
C17_ReinstallReplaces ==
    [][(/\ op'.op = "install" /\ op'.result = "ok"
        /\ Loaded(op'.id)
        /\ \E e \in extensions : e.id = op'.id /\ e.status = "enabled")
       => \E e \in extensions' :
            /\ e.id = op'.id
            /\ RoutesOf(routes', e.id) =
                 IF e.has_backend THEN RoutesOfTree(fs', e) ELSE <<>>
            /\ e.id \in DOMAIN manager'.cleanup_handlers
                 => manager'.cleanup_handlers[e.id]
                      = fs'[get_extension_path(e.name, e.version)].id]_vars

\* C18: an install that fails (bad zip, missing or invalid manifest, copy
\* failure, database failure) leaves the extensions directory and the
\* extensions table as they were
C18_FailedInstallChangesNothing ==
    [][(op'.op = "install" /\ op'.result \in {"failed", "error"})
       => fs' = fs /\ extensions' = extensions]_vars

\* C19: an uninstall of an existing extension, whether or not the removal of
\* the tree failed, leaves no row of the extension, no loaded backend and no
\* mounted route of it; the tree is gone unless its removal failed; and a
\* failure at the deletion of the row comes after the unload
C19_UninstallOrder ==
    /\ (op.op = "uninstall" /\ op.result \in {"ok", "not_removed"})
         => /\ RowsOf(op.id) = {}
            /\ ~Loaded(op.id)
            /\ RoutesOf(routes, op.id) = <<>>
    /\ (op.op = "uninstall" /\ op.result = "error")
         => ~Loaded(op.id) /\ RowsOf(op.id) # {}

(***************************************************************************)
(* Properties of the extension storage                                     *)
(***************************************************************************)
\* the rows of the table that do not belong to extension id
RowsOfOthers(rows, id) == {d \in rows : d.extension_id # id}

StorageOps ==
    {"get", "set", "delete", "list", "get_all", "clear", "list_extension_data",
     "get_extension_data", "set_extension_data", "delete_extension_data"}

\* C13: a Get, Set, Delete, List, GetAll or Clear issued against an extension
\* returns only values that were stored by calls against that extension, and
\* creates, changes or removes no row of any other extension, whatever the
\* keys are
C13_StorageIsolated ==
    [][(got'.op \in StorageOps /\ got'.against # None /\ UNCHANGED extensions)
       => /\ \A d \in got'.returned :
               d.extension_id = got'.against[1] /\ d.value.by = got'.against[1]
          /\ RowsOfOthers(extension_data', got'.against[1])
               = RowsOfOthers(extension_data, got'.against[1])]_vars

\* both extensions hold a value under the same key, and a read against one
\* of them has returned its value
C13_Witness ==
    /\ got.op \in {"get", "get_all", "get_extension_data"}
    /\ got.returned # {}
    /\ \E a \in extension_data, b \in extension_data :
         /\ a.extension_id = got.against[1]
         /\ b.extension_id # a.extension_id
         /\ b.key = a.key
         /\ a \in got.returned

(***************************************************************************)
(* Properties of concurrent status updates                                 *)
(***************************************************************************)
UpdatesDone == updates.start # None /\ Quiet

\* the state of the extension the two calls were about
Outcome ==
    LET ext == CHOOSE e \in extensions : e.id = updates.start[1].ext.id
    IN  Snapshot(ext, manager, routes)

\* the state after the two calls one after the other, in the order given
InOrder(first, second) ==
    LET s == AfterUpdate(AfterUpdate(updates.start[1], updates.calls[first].status),
                         updates.calls[second].status)
    IN  Snapshot(s.ext, s.manager, s.routes)

\* C20: when two concurrent SetStatus calls on one extension have ended, the
\* status, the loaded backends and the routes are those that the two calls
\* produce in one of the two sequential orders, and at no time is a route of
\* the backend mounted twice
C20_UpdatesSerialized ==
    /\ UpdatesDone => Outcome \in {InOrder(1, 2), InOrder(2, 1)}
    /\ \A e \in extensions : MountedOnce(RoutesOf(routes, e.id))

\* the last call was an install that succeeded while load_backend failed
InstalledNotLoaded ==
    /\ op.op = "install" /\ op.result = "ok" /\ ~op.loaded
    /\ \E e \in RowsOf(op.id) : e.manifest.backend_entry

\* C21: after an install whose backend failed to load, the install has
\* answered success, the extension row exists with status enabled, no route
\* of the extension is mounted and the manager does not hold it as loaded
C21_LoadFailureLeavesUnloaded ==
    InstalledNotLoaded
      => /\ \A e \in RowsOf(op.id) : e.status = "enabled"
         /\ RoutesOf(routes, op.id) = <<>>
         /\ ~Loaded(op.id)

\* two installs of packages of one name were under way together and have
\* both ended
SameNameInstallsDone ==
    /\ installs # NoInstalls
    /\ InstallsQuiet
    /\ validate_manifest(installs[1].pkg.manifest)
    /\ validate_manifest(installs[2].pkg.manifest)
    /\ installs[1].pkg.manifest.name = installs[2].pkg.manifest.name
    /\ installs[1].pkg.fault = "none" /\ installs[2].pkg.fault = "none"

\* C22: at most one extension row exists per name, and of two concurrent
\* installs of packages of one name one is answered with a conflict
C22_OneRowPerName ==
    /\ \A e1 \in extensions, e2 \in extensions : e1.name = e2.name => e1 = e2
    /\ SameNameInstallsDone
         => \E w \in InstallWorkers : installs[w].result = "conflict"

(***************************************************************************)
(* Properties of the audit table                                           *)
(***************************************************************************)
\* a request through the sandbox client returned or raised in this step while
\* the extension of the client's name is installed
RequestOfInstalled ==
    /\ call'.n # call.n
    /\ call'.op = "request"
    /\ \E e \in extensions : e.name = ExtensionName

\* every audit row of an extension that is still installed is kept as written
AuditRowsKept ==
    \A a \in audit : (\E e \in extensions' : e.id = a.extension_id) => a \in audit'

\* C23: audit rows are append-only: while the extension exists each sandbox
\* call adds a row, and no step of the sandbox or of the HTTP API changes or
\* removes a row already written
C23_AuditAppendOnly ==
    [][/\ AuditRowsKept
       /\ RequestOfInstalled => \E a \in audit' : a \notin audit]_vars

(***************************************************************************)
(* Properties of storage handles of absent extensions                      *)
(***************************************************************************)
StorageMethods == {"get", "set", "delete", "list", "get_all", "clear"}

\* the method that just ran was called on a handle whose extension is
\* absent: no extension of the handle's name is installed, whether the handle
\* has cached an id or not
OnAbsentExtension ==
    /\ got'.op \in StorageMethods
    /\ UNCHANGED extensions
    /\ \E name \in Names :
         /\ storage'[name] = got'.against
         /\ storage[name] \in {None, got'.against}
         /\ ~\E e \in extensions : e.name = name
    /\ got'.against # None => RowsOf(got'.against[1]) = {}

\* C24: every storage method called on a handle whose extension is absent
\* fails with the unknown-extension error, when the extension never existed
\* and when it was uninstalled after the handle cached its id
C24_AbsentExtensionFails ==
    [][OnAbsentExtension => got'.outcome = "ValueError"]_vars

(***************************************************************************)
(* Properties of the MCP tool surface                                      *)
(***************************************************************************)
\* the exchange was a tools/call of the tool over the transport
Called(x, transport, name) ==
    /\ x.transport = transport
    /\ x.request.method = "tools/call"
    /\ x.request.name = name

\* the run returned has as many nodes as the payload and, node by node, as
\* many messages
SameCounts(text, args) ==
    /\ text.error = None
    /\ Len(text.nodes) = Len(args.nodes)
    /\ \A i \in 1..Len(text.nodes) :
         i <= Len(args.nodes)
           => Len(text.nodes[i].messages) = Len(args.nodes[i].messages)

\* a tools/call of ingest_trace was answered with status ingested and the
\* next exchange is a tools/call of get_run for the returned run_id that is
\* answered with a result
IngestThenGetRun ==
    /\ Called(mcp, "stdio", "ingest_trace")
    /\ mcp.reply.kind = "result" /\ mcp.reply.text.status = "ingested"
    /\ Called(mcp', "stdio", "get_run")
    /\ mcp'.request.arguments.run_id = Some(mcp.reply.text.run_id)
    /\ mcp'.reply.kind = "result"

\* C25: through the MCP tools, a call of ingest_trace followed by a call of
\* get_run for the returned run_id yields a run whose number of nodes and
\* number of messages per node are those of the ingested payload
C25_McpRoundTrip ==
    [][IngestThenGetRun
         => SameCounts(mcp'.reply.text, mcp.request.arguments)]_vars

\* get_run has returned, right after the MCP ingest of its run, a run with a
\* node that has a message
C25_Witness ==
    /\ Called(mcp, "stdio", "get_run")
    /\ mcp.reply.kind = "result" /\ mcp.reply.text.error = None
    /\ last.op = "mcp_ingest" /\ last.result = "ingested"
    /\ last.run_id = mcp.reply.text.run_id
    /\ \E i \in 1..Len(mcp.reply.text.nodes) : Len(mcp.reply.text.nodes[i].messages) = 1

\* what POST /api/traces leaves when no storage error occurs: the stored run
\* of the payload's run_id and its children deleted, the payload's rows
\* inserted
AfterHttpIngest(d, t) ==
    LET rid == TraceRunId(d, t)
        del == IF RunExists(d, rid) THEN DeleteRunStatements(d, rid)
               ELSE [ok |-> TRUE, db |-> d]
    IN  IF del.ok THEN InsertTrace(del.db, t, rid) ELSE d

\* this step is a tools/call of ingest_trace with the run_id of a stored run,
\* without a storage error
McpReIngest ==
    /\ Called(mcp', "stdio", "ingest_trace")
    /\ ~mcp'.fail
    /\ mcp'.request.arguments.run_id # None
    /\ RunExists(db, mcp'.request.arguments.run_id[1])

\* C26: the MCP tool ingest_trace called with a run_id that is already stored
\* replaces the stored run and its children, answers status ingested and
\* leaves the state the HTTP ingest of that payload would leave
C26_McpIngestReplaces ==
    [][McpReIngest
         => /\ mcp'.reply.kind = "result"
            /\ mcp'.reply.text.status = "ingested"
            /\ db' = AfterHttpIngest(db, TraceOf(mcp'.request.arguments))]_vars

\* a storage error in the tool
StorageError(x) == x.request.method = "tools/call" /\ x.fail

\* a required argument of the tool is missing
MissingArgument(x) ==
    \/ Called(x, "stdio", "get_run") /\ x.request.arguments.run_id = None
    \/ /\ x.transport = "http" /\ x.request.method = "tools/call"
       /\ x.request.name \in HttpTools
       /\ ~BindsArguments(x.request.name, x.request.arguments)

\* the run the tool is called for is not stored
UnknownRun(x) ==
    /\ \/ Called(x, "stdio", "get_run")
       \/ Called(x, "http", "log_step") /\ BindsArguments("log_step", x.request.arguments)
    /\ x.request.arguments.run_id # None
    /\ ~RunExists(db, x.request.arguments.run_id[1])

KnownTools(transport) ==
    IF transport = "http" THEN HttpTools ELSE {"ingest_trace", "list_runs", "get_run"}

\* the request of the exchange was parsed and handled
Handled(x) == x.transport \in {"stdio", "http"} /\ x.reply.kind # "500"

\* C27: a tools/call whose tool fails (storage error, missing required
\* argument, unknown run) is answered with a JSON-RPC error object of code
\* -32602 or -32603, never with a result object, and a tools/call of an
\* unknown tool is answered with an error object
C27_ToolFailureIsError ==
    /\ ( /\ Handled(mcp)
         /\ mcp.request.name \in KnownTools(mcp.transport)
         /\ StorageError(mcp) \/ MissingArgument(mcp) \/ UnknownRun(mcp) )
         => mcp.reply.kind = "error" /\ mcp.reply.code \in {-32602, -32603}
    /\ ( /\ Handled(mcp)
         /\ mcp.request.method = "tools/call"
         /\ mcp.request.name \notin KnownTools(mcp.transport) )
         => mcp.reply.kind = "error"

SupportedMethods == {"initialize", "notifications/initialized", "tools/list", "tools/call"}

\* C28: on both transports a request whose method is none of initialize,
\* notifications/initialized, tools/list and tools/call is answered with a
\* JSON-RPC error object of code -32601
C28_UnknownMethodIsError ==
    (Handled(mcp) /\ mcp.request.method \notin SupportedMethods)
        => mcp.reply.kind = "error" /\ mcp.reply.code = -32601

(***************************************************************************)
(* Properties of the stdio loop                                            *)
(***************************************************************************)
\* a reply to line n was written to standard output
Answered(n) == \E k \in 1..Len(stdio.out) : stdio.out[k].line = n

\* main has read a line that does not deserialize
SkippedOne == \E k \in 1..stdio.pos : stdio.lines[k].kind = "garbage"

\* C29: a line that fails to deserialize is skipped without a reply and
\* does not end the loop: main ends at the end of the input only, and by then
\* every well-formed request line after such a line has been read and
\* answered
C29_BadLineSkipped ==
    /\ \A n \in 1..stdio.pos : stdio.lines[n].kind = "garbage" => ~Answered(n)
    /\ (SkippedOne /\ stdio.pc # "reading")
         => /\ stdio.pc = "ended"
            /\ stdio.closed /\ stdio.pos = Len(stdio.lines)
            /\ \A n \in 1..Len(stdio.lines) :
                 (stdio.lines[n].kind = "request" /\ \E k \in 1..(n - 1) :
                                                       stdio.lines[k].kind = "garbage")
                   => Answered(n)

(***************************************************************************)
(* Properties of the validation of posted traces                           *)
(***************************************************************************)
\* the body has no nodes, or nodes that are not a list
FailsValidation(body) == body.nodes.type # "array"

\* C30: a posted trace that fails validation (missing nodes, nodes of the
\* wrong type) is answered with a validation error and no Run, NodeExecution,
\* Message or Edge row is created, changed or deleted, also when a run of
\* the payload's run_id is stored
C30_InvalidTraceRejected ==
    [][(last'.op \in {"post_traces", "http_ingest"} /\ FailsValidation(posted'))
         => /\ resp' = Some([status |-> 422])
            /\ db' = db]_vars

\* a body without a list of nodes was rejected while a run of its run_id,
\* with child rows, is stored
C30_Witness ==
    /\ FailsValidation(posted) /\ posted # NoBody
    /\ last.op = "post_traces"
    /\ resp = Some([status |-> 422])
    /\ RunExists(db, posted.run_id[1])
    /\ \E n \in db.node_executions : n.run_id = posted.run_id[1]

(***************************************************************************)
(* Properties of the node status and the state diff                        *)
(***************************************************************************)
\* the node went through an ingest
NodeIngested == sent_node.path \in IngestPaths

\* C31: the stored status of an ingested node is failed when the node
\* carries an error, otherwise the status supplied in the payload when one
\* is supplied, otherwise completed
C31_NodeStatus ==
    NodeIngested =>
        /\ sent_node.stored # None
        /\ sent_node.stored[1].status =
             IF sent_node.body.error # None THEN "failed"
             ELSE IF sent_node.body.status # None THEN sent_node.body.status[1]
             ELSE "completed"

KeysOf(d) == DOMAIN d

\* the diff of state_in and state_out as the three maps with their keys
IsDiffOf(diff, state_in, state_out) ==
    /\ KeysOf(diff.added) = KeysOf(state_out) \ KeysOf(state_in)
    /\ \A k \in KeysOf(diff.added) : diff.added[k] = state_out[k]
    /\ KeysOf(diff.removed) = KeysOf(state_in) \ KeysOf(state_out)
    /\ \A k \in KeysOf(diff.removed) : diff.removed[k] = state_in[k]
    /\ KeysOf(diff.modified)
         = {k \in KeysOf(state_in) \cap KeysOf(state_out) : state_in[k] # state_out[k]}
    /\ \A k \in KeysOf(diff.modified) :
         diff.modified[k] = [before |-> state_in[k], after |-> state_out[k]]
    /\ KeysOf(diff.added) \cap KeysOf(diff.removed) = {}
    /\ KeysOf(diff.added) \cap KeysOf(diff.modified) = {}
    /\ KeysOf(diff.removed) \cap KeysOf(diff.modified) = {}

\* C32: for an ingested node whose state_in and state_out are both present,
\* an empty map included, a state_diff is stored, with added the keys only in
\* state_out, removed the keys only in state_in, modified the common keys
\* whose values differ with their before and after values, the three key
\* sets pairwise disjoint
C32_StateDiff ==
    ( /\ NodeIngested
      /\ sent_node.body.state_in # None
      /\ sent_node.body.state_out # None )
      => /\ sent_node.stored # None
         /\ sent_node.stored[1].state_diff # None
         /\ IsDiffOf(sent_node.stored[1].state_diff[1],
                     sent_node.body.state_in[1], sent_node.body.state_out[1])

(***************************************************************************)
(* Properties of patterns whose path ends in *                             *)
(***************************************************************************)
\* the host of the URL is the pattern's host, or under the pattern's *. domain
HostAccepted(url_host, pattern_host) ==
    IF StartsWith(pattern_host, <<"*", ".">>)
    THEN EndsWith(url_host, <<".">> \o SubSeq(pattern_host, 3, Len(pattern_host)))
    ELSE url_host = pattern_host

\* the path of a URL, / when the URL has none
PathOf(url) == IF url.path = <<>> THEN <<"/">> ELSE url.path

\* a match was made for a pattern whose path ends in * and a URL of the
\* pattern's scheme and an accepted host
TriedPrefixPattern ==
    /\ matched.result # None
    /\ EndsWith(matched.pattern.path, <<"*">>)
    /\ matched.url.scheme = matched.pattern.scheme
    /\ HostAccepted(matched.url.netloc, matched.pattern.netloc)

\* C33: for a pattern whose path ends in *, a URL of matching scheme and host
\* is accepted if and only if its path starts with the whole pattern path
\* before the *: /v1/* accepts /v1/x and rejects /v10/x and /v12
C33_PrefixBeforeStar ==
    TriedPrefixPattern =>
        (Accepted <=> StartsWith(PathOf(matched.url),
                                 SubSeq(matched.pattern.path, 1,
                                        Len(matched.pattern.path) - 1)))

(***************************************************************************)
(* Properties of the audit row of one request                              *)
(***************************************************************************)
\* the audit rows of the last call
RowsOfCall == {a \in audit : a.id = call.n}

Raised(outcome) == call.op = "request" /\ call.outcome = outcome

\* C34: when request raises PermissionError the audit row of the call is
\* already stored, with allowed false and the reason; when it returns the
\* response or raises the transport error the audit row of the call is stored
\* with allowed true, the elapsed time, the status of the response if there
\* was one, and every denied header redacted
C34_AuditRowWritten ==
    /\ Raised("PermissionError") =>
         \E a \in RowsOfCall : ~a.allowed /\ a.blocked_reason # None
    /\ (Raised("returned") \/ Raised("TransportError")) =>
         \E a \in RowsOfCall :
            /\ a.allowed
            /\ a.response_time_ms # None
            /\ Raised("returned") => a.response_status # None
            /\ AllRedacted(a.request_headers) /\ AllRedacted(a.response_headers)

\* C35: when the URL is allowed and the transport fails, the error is raised
\* to the caller and exactly one audit row is stored for the call, with
\* allowed true, an error and no response status
C35_TransportFailureAudited ==
    Raised("TransportError") =>
        /\ call.n \in sent
        /\ Cardinality(RowsOfCall) = 1
        /\ \A a \in RowsOfCall :
              a.allowed /\ a.error # None /\ a.response_status = None

(***************************************************************************)
(* Properties of concurrent calls of set                                   *)
(***************************************************************************)
\* both calls of set have ended, and they found the extension
SetsDone ==
    /\ DOMAIN sets = SetWorkers
    /\ \A w \in SetWorkers : sets[w].pc = "done" /\ sets[w].ext_id # None

\* C36: no two rows of extension_data have the same extension_id and key, and
\* when two calls of set for one extension and key have ended, exactly one
\* row exists for the key and it holds the value of one of the two calls
C36_SetKeepsKeyUnique ==
    /\ \A d1, d2 \in extension_data :
          (d1.extension_id = d2.extension_id /\ d1.key = d2.key) => d1 = d2
    /\ SetsDone =>
          \E d \in extension_data :
             /\ EntryOf(extension_data, sets[1].ext_id[1], sets[1].key) = {d}
             /\ \E w \in SetWorkers : d.value.v = sets[w].value

\* both calls found no entry for the key, one added the row and the other
\* failed on the unique index, and the calls set different values
C36_Witness ==
    /\ SetsDone
    /\ \A w \in SetWorkers : sets[w].entry = {}
    /\ {sets[w].outcome : w \in SetWorkers} = {"set", "IntegrityError"}
    /\ sets[1].value # sets[2].value
    /\ Cardinality(EntryOf(extension_data, sets[1].ext_id[1], sets[1].key)) = 1

\* both calls found the entry and changed it
C36_WitnessUpdate ==
    /\ SetsDone
    /\ \A w \in SetWorkers : sets[w].entry # {} /\ sets[w].outcome = "set"
    /\ sets[1].value # sets[2].value

(***************************************************************************)
(* Properties of unload_backend                                            *)
(***************************************************************************)
\* this step called unload_backend for extension id while it was loaded: an
\* uninstall of its row, or a SetStatus(disabled) on its enabled row
UnloadOf(id) ==
    /\ id \in DOMAIN manager.loaded_extensions
    /\ op'.id = id
    /\ \/ op'.op = "uninstall" /\ op'.result # "not_found"
       \/ /\ op'.op = "status" /\ op'.requested = "disabled" /\ op'.result = "ok"
          /\ \E e \in RowsOf(id) : e.status = "enabled"

\* the routes of the list that extension id did not add
RoutesOfOthers(rts, id) == SelectSeq(rts, LAMBDA r : r.by # id)

\* C37: when the cleanup callable of an extension raises during unload, the
\* unload completes: the routes of the extension are removed, its module is
\* not in the module cache, the manager does not hold it as loaded, and the
\* call that unloaded it succeeds
C37_CleanupErrorSwallowed ==
    [][\A id \in DOMAIN manager.cleanup_handlers :
          (UnloadOf(id) /\ CleanupRaises(manager.cleanup_handlers[id])) =>
              /\ RoutesOf(routes', id) = <<>>
              /\ manager.loaded_extensions[id].name \notin manager'.sys_modules
              /\ id \notin DOMAIN manager'.loaded_extensions
              /\ id \notin DOMAIN manager'.cleanup_handlers
              /\ op'.result = "ok"]_vars

\* C39: unloading the backend of an extension leaves every route that the
\* extension did not contribute in the route list, in its place: the routes
\* of another loaded extension and the routes of the platform
C39_UnloadKeepsOtherRoutes ==
    [][\A id \in DOMAIN manager.loaded_extensions :
          UnloadOf(id) => RoutesOfOthers(routes', id) = RoutesOfOthers(routes, id)]_vars

(***************************************************************************)
(* Properties of the initialized notification                              *)
(***************************************************************************)
IsNotification(request) == request.method = "notifications/initialized"

\* C38: a notifications/initialized message gets no response on either
\* transport: the reply to it has no body, and the stdio loop writes no line
\* for it
C38_NotificationUnanswered ==
    /\ (mcp.transport # "none" /\ IsNotification(mcp.request))
         => mcp.reply.kind = "empty"
    /\ \A n \in 1..stdio.pos :
         (stdio.lines[n].kind = "request" /\ IsNotification(stdio.lines[n].request))
           => ~Answered(n)

(***************************************************************************)
(* Properties of log_step                                                  *)
(***************************************************************************)
\* the nodes log_step has added
StepNodes == {n \in db.node_executions : n.node_key = StepName}

\* C40: a node that log_step has added to a run has an order different from
\* that of every other node of the run, in whatever order the calls of
\* log_step for the run are run
C40_LogStepOrderDistinct ==
    \A n \in StepNodes :
       \A o \in RunNodes(db, n.run_id) : o # n => o.order # n.order

====
